---- MODULE Spec2Model ----
(***************************************************************************)
(* A model of convert_hf_to_gguf.py: the shard stream of                   *)
(* ModelBase.get_tensors and the expert-merging handlers                   *)
(* (LlamaModel / GrokModel modify_tensors and prepare_tensors).            *)
(*                                                                         *)
(* The specifications share the module's variables:                        *)
(*   SpecSource  - one get_tensors generator and its consumer;             *)
(*   SpecExperts - prepare_tensors of an expert-merging handler fed by a   *)
(*                 raw tensor stream;                                      *)
(*   SpecSplit   - modify_tensors of the handlers that split a fused       *)
(*                 tensor (RefactModel, GraniteMoeModel);                  *)
(*   SpecPrepare - the encoding selection of prepare_tensors, tensor by    *)
(*                 tensor;                                                 *)
(*   SpecWrite   - ModelBase.write: the tensor pass, the metadata and the  *)
(*                 output file;                                            *)
(*   SpecMain    - the registration of the model classes at import and     *)
(*                 main from the lookup of the architecture on;            *)
(*   SpecFormat  - one call of ModelBase.format_tensor_name;               *)
(*   SpecRuns    - two conversions of the same model directory, one after  *)
(*                 the other;                                              *)
(*   SpecModify  - one call of modify_tensors, the tensors as objects;     *)
(*   SpecPlan    - the shard plan of the writer;                           *)
(*   SpecBid     - the block index prepare_tensors reads from a name;      *)
(*   SpecSelect  - the encoding selection applied to one tensor;           *)
(*   SpecExtra   - prepare_tensors over the synthetic tensors and the      *)
(*                 tensors of the shards;                                  *)
(*   SpecHandler - MambaModel and T5Model over a raw tensor stream;        *)
(*   SpecCtor    - the output type from main to the tensor pass;           *)
(*   SpecArch    - one call of get_model_architecture.                     *)
(***************************************************************************)
EXTENDS Integers, Sequences, FiniteSets, TLC

\* ------------------------------------------------------------------------
\* Bounds of the model
\* ------------------------------------------------------------------------

\* tensor names that may occur in shard files and in the index
MaxNames == 2
\* shard files in the model directory
MaxParts == 2

\* expert slots of the configuration: block_count * num_local_experts
MaxSlots == 2
\* raw tensors the stream delivers to the handler
MaxCalls == 6

\* sizes in the configuration of a splitting handler (n_embd, n_head, ...)
MaxDim == 2
\* rows a fused tensor may have beyond twice the largest configured size
MaxExtra == 1

\* tensors one tensor pass adds to the writer
MaxTensors == 2
\* dimensions of a tensor
MaxRank == 2
\* the largest block index passed to format_tensor_name
MaxBid == 2

Names == 1..MaxNames
Files == 1..MaxParts

\* ------------------------------------------------------------------------
\* State
\* ------------------------------------------------------------------------

VARIABLES
    \* --- inputs of get_tensors (the model directory) ---
    index_file,              \* "none": no index file; "bad": index file without a
                             \* weight_map dict; "map": index file with a weight_map
    weight_map,              \* the index's weight_map: tensor name -> shard file
    part_names,              \* the sorted shard files: position -> tensor names in it
    \* --- the generator's locals and the fields it sets ---
    tensor_names,            \* self.tensor_names
    tensor_names_from_parts, \* the local set of names seen in opened shards
    part_i,                  \* position in part_names of the shard being read
    pending,                 \* names of the open shard not yielded yet
    gpc,                     \* "new", "yield" (suspended at yield), "done"
                             \* (returned), "error" (raised), "dropped" (the
                             \* consumer stopped pulling)
    gerr,                    \* the error get_tensors raised
    \* --- history ---
    yielded,                 \* the names yielded so far, in order
    compared                 \* how often the verification at the end ran

VARIABLES
    \* --- the handler and its configuration ---
    handler,                 \* the class: "LlamaModel" or "GrokModel"
    n_experts,               \* self.hparams["num_local_experts"]
    block_count,             \* self.block_count
    \* --- the handler's state ---
    experts,                 \* self._experts: <<>> for None, else block -> dict
                             \* (raw name -> tensor)
    ppc,                     \* prepare_tensors: "idle", "run" (in its loop),
                             \* "done" (returned), "error" (raised)
    perr,                    \* the error prepare_tensors raised
    ret,                     \* what the last modify_tensors call returned
    \* --- history ---
    received,                \* raw expert name -> deliveries so far (2: twice or more)
    ncalls                   \* modify_tensors calls so far

VARIABLES
    \* --- one modify_tensors call of a splitting handler ---
    split_cls,               \* the class: "RefactModel" or "GraniteMoeModel"
    split_hparams,           \* self.hparams (the keys the handler reads)
    split_name,              \* the raw tensor name (its kind)
    split_bid,               \* bid: "None" or the block index "0"
    data_torch,              \* the input tensor: its rows along the split axis
    tensors,                 \* the list the call returned: <<name, rows>> pairs
    split_pc,                \* "call" (not called yet), "returned", "error"
    split_err                \* the exception the call raised

splitvars == <<split_cls, split_hparams, split_name, split_bid, data_torch,
               tensors, split_pc, split_err>>

VARIABLES
    \* --- ModelBase.write and the encoding selection of prepare_tensors ---
    model_cls,               \* the class whose tensor_force_quant is used
    ftype,                   \* self.ftype
    model_names,             \* the canonical names modify_tensors may return
    source_end,              \* how the tensor stream ends: "ok", "mismatch"
                             \* (get_tensors raises), "experts" (experts are
                             \* left in the handler's buffer)
    writer,                  \* self.gguf_writer's tensors: <<new_name, raw_dtype,
                             \* shape>> in the order of add_tensor
    warnings,                \* logger.warning calls of the tensor pass
    wpc,                     \* the call write() is at, "done" or "error"
    werr,                    \* the exception that ended write()
    out_file,                \* the output file: "none" (never opened), "header",
                             \* "kv", "tensors" (the last part written), "closed"
    \* --- history ---
    calls                    \* the calls of write() that returned, in order

prepvars == <<model_cls, ftype, model_names, source_end, writer, warnings, wpc, werr,
              out_file, calls>>

VARIABLES
    \* --- the registry and main ---
    model_classes,           \* ModelBase._model_classes: model type -> (name -> class)
    decl_i,                  \* the next registered class declaration to execute
    model_architecture,      \* what get_model_architecture returned
    mmproj,                  \* args.mmproj
    vocab_only,              \* args.vocab_only
    model_class,             \* the class main resolved ("none" before)
    mpc,                     \* main: "import", "main", "resolved", "constructed",
                             \* "exported", "exit"
    exit_status,             \* the status of sys.exit ("none" before)
    \* --- history ---
    events                   \* what main did so far, in order

mainvars == <<model_classes, decl_i, model_architecture, mmproj, vocab_only,
              model_class, mpc, exit_status, events>>

VARIABLES
    \* --- one call of format_tensor_name ---
    fmt_arch,                \* self.model_arch
    fmt_key,                 \* key
    fmt_bid,                 \* bid: <<>> for None, <<b>> for the block index b
    fmt_suffix,              \* suffix
    fmt_ret                  \* <<>> before the call, then the name returned or
                             \* the exception raised

fmtvars == <<fmt_arch, fmt_key, fmt_bid, fmt_suffix, fmt_ret>>

VARIABLES
    \* --- two conversions of one model directory ---
    run_cls,                 \* the class: "LlamaModel" or "Rwkv6Model"
    run_ftype,               \* the output type of both runs
    same_process,            \* both runs in one interpreter process
    shard_of,                \* the directory: position of a tensor -> shard file
    listing,                 \* what os.listdir returned to the current run
    run,                     \* the current run: 1 or 2
    rpc,                     \* "start" (no instance yet), "pass" (in the tensor
                             \* pass), "done" (both runs ended)
    queue,                   \* the raw tensors the current pass has not read yet
    lerp_weights,            \* Rwkv6Model.lerp_weights (a class attribute):
                             \* block -> (new_name -> tensor); here block 0
    passed                   \* run -> the <<new_name, encoding, shape>> passed
                             \* to the writer, in order

runvars == <<run_cls, run_ftype, same_process, shard_of, listing, run, rpc,
             queue, lerp_weights, passed>>

VARIABLES
    \* --- one call of modify_tensors, the tensors as objects ---
    mod_cls,                 \* the class of the handler
    eager,                   \* self.lazy is False (--no-lazy)
    mod_hparams,             \* self.hparams: rescale_every (<<>> when the key
                             \* is absent, else <<n>>) and norm_head
    mod_name,                \* the canonical name of the tensor without its
                             \* block prefix
    mod_bid,                 \* bid: <<>> for None, <<b>> for block b
    heap,                    \* tensor object -> its value; object 1 is the
                             \* data_torch the caller passed
    mod_ret,                 \* the list returned: <<new_name, object>>
    mod_pc                   \* "call" or "returned"

modvars == <<mod_cls, eager, mod_hparams, mod_name, mod_bid, heap, mod_ret, mod_pc>>

VARIABLES
    \* --- the shard plan of the writer ---
    split_max_tensors,       \* args.split_max_tensors, 0 = unlimited
    split_max_size,          \* the byte limit in units of one tensor, 0 =
                             \* unlimited
    small_first_shard,       \* args.no_tensor_first_split
    n_tensors,               \* the canonical tensors prepare_tensors will add
    shards,                  \* gguf_writer.tensors: one sequence of tensors
                             \* per output file; tensor i is the i-th added
    plan_pc                  \* "construct", "add", "planned"

planvars == <<split_max_tensors, split_max_size, small_first_shard, n_tensors, shards, plan_pc>>

VARIABLES
    \* --- the block index of a raw tensor name ---
    raw_name,                \* name: a sequence of characters
    raw_bid,                 \* bid: <<>> for None, <<b>> for the integer b
    bid_pc                   \* "name" or "parsed"

bidvars == <<raw_name, raw_bid, bid_pc>>

VARIABLES
    \* --- the encoding selected for one tensor ---
    sel_cls,                 \* the class of the model
    sel_ftype,               \* self.ftype
    sel_name,                \* new_name
    sel_dims,                \* n_dims
    sel_qtype,               \* data_qtype after line 355, or "ValueError"
    sel_pc                   \* "tensor" or "selected"

selvars == <<sel_cls, sel_ftype, sel_name, sel_dims, sel_qtype, sel_pc>>

VARIABLES
    \* --- prepare_tensors with synthetic tensors ---
    ext_cls,                 \* the class of the model
    ext_ftype,               \* self.ftype
    rope_scaling,            \* hparams has the rope_scaling the class reads
    shard_tensors,           \* what get_tensors yields: raw names, in order
    n_pulled,                \* calls of generate_extra_tensors so far
    chained,                 \* the rest of chain(...): <<origin, name, n_dims>>
    gguf_tensors,            \* the writer: <<origin, name, new_name, encoding>>
                             \* of the tensors added, in order
    ext_pc                   \* "start", "loop", "done"

extvars == <<ext_cls, ext_ftype, rope_scaling, shard_tensors, n_pulled, chained, gguf_tensors, ext_pc>>

VARIABLES
    \* --- a handler that drops duplicates of the token embedding ---
    hnd_cls,                 \* the class: "MambaModel" or "T5Model"
    hnd_queue,               \* the raw tensors not yet read: <<name, data>>
    tok_embd,                \* MambaModel._tok_embd: <<>> for None, else
                             \* <<data>>
    shared_token_embeddings_found,   \* of T5Model
    hnd_calls                \* the calls of modify_tensors so far:
                             \* [name, data, ret], ret the list returned

hndvars == <<hnd_cls, hnd_queue, tok_embd, shared_token_embeddings_found, hnd_calls>>

VARIABLES
    \* --- the output type from the command line to the tensor pass ---
    args_outtype,            \* args.outtype
    first_tensor,            \* the stream: <<>> when it is empty, else
                             \* <<dtype>> of its first tensor
    self_ftype,              \* self.ftype, "unset" before the constructor
    ctor_pc,                 \* "main", "constructed", "raised", "prepared"
    ctor_tensor,             \* the tensor prepare_tensors selected for:
                             \* <<>> or <<new_name, n_dims>>
    ctor_qtype               \* its data_qtype, or "ValueError"

ctorvars == <<args_outtype, first_tensor, self_ftype, ctor_pc, ctor_tensor, ctor_qtype>>

VARIABLES
    \* --- one call of get_model_architecture ---
    arch_hparams,            \* hparams: the keys the function reads; a list
                             \* valued key is [present, list]
    arch_model_type,         \* model_type: "TEXT" or "MMPROJ"
    arch_ret                 \* <<>> before the call, then <<arch>> or
                             \* <<exception>>

archvars == <<arch_hparams, arch_model_type, arch_ret>>

expvars == <<handler, n_experts, block_count, experts, ppc, perr, ret,
             received, ncalls>>

srcvars == <<index_file, weight_map, part_names, tensor_names,
             tensor_names_from_parts, part_i, pending, gpc, gerr,
             yielded, compared>>

vars == <<srcvars, expvars, splitvars, prepvars, mainvars, fmtvars,
          runvars, modvars, planvars, bidvars, selvars, extvars,
          hndvars, ctorvars, archvars>>

\* what the actions of one part leave alone
nonsrcvars ==
    <<expvars, splitvars, prepvars, mainvars, fmtvars, runvars,
      modvars, planvars, bidvars, selvars, extvars, hndvars,
      ctorvars, archvars>>
nonexpvars ==
    <<srcvars, splitvars, prepvars, mainvars, fmtvars, runvars,
      modvars, planvars, bidvars, selvars, extvars, hndvars,
      ctorvars, archvars>>
nonsplitvars ==
    <<srcvars, expvars, prepvars, mainvars, fmtvars, runvars,
      modvars, planvars, bidvars, selvars, extvars, hndvars,
      ctorvars, archvars>>
nonprepvars ==
    <<srcvars, expvars, splitvars, mainvars, fmtvars, runvars,
      modvars, planvars, bidvars, selvars, extvars, hndvars,
      ctorvars, archvars>>
nonmainvars ==
    <<srcvars, expvars, splitvars, prepvars, fmtvars, runvars,
      modvars, planvars, bidvars, selvars, extvars, hndvars,
      ctorvars, archvars>>
nonfmtvars ==
    <<srcvars, expvars, splitvars, prepvars, mainvars, runvars,
      modvars, planvars, bidvars, selvars, extvars, hndvars,
      ctorvars, archvars>>
nonrunvars ==
    <<srcvars, expvars, splitvars, prepvars, mainvars, fmtvars,
      modvars, planvars, bidvars, selvars, extvars, hndvars,
      ctorvars, archvars>>
nonmodvars ==
    <<srcvars, expvars, splitvars, prepvars, mainvars, fmtvars,
      runvars, planvars, bidvars, selvars, extvars, hndvars,
      ctorvars, archvars>>
nonplanvars ==
    <<srcvars, expvars, splitvars, prepvars, mainvars, fmtvars,
      runvars, modvars, bidvars, selvars, extvars, hndvars,
      ctorvars, archvars>>
nonbidvars ==
    <<srcvars, expvars, splitvars, prepvars, mainvars, fmtvars,
      runvars, modvars, planvars, selvars, extvars, hndvars,
      ctorvars, archvars>>
nonselvars ==
    <<srcvars, expvars, splitvars, prepvars, mainvars, fmtvars,
      runvars, modvars, planvars, bidvars, extvars, hndvars,
      ctorvars, archvars>>
nonextvars ==
    <<srcvars, expvars, splitvars, prepvars, mainvars, fmtvars,
      runvars, modvars, planvars, bidvars, selvars, hndvars,
      ctorvars, archvars>>
nonhndvars ==
    <<srcvars, expvars, splitvars, prepvars, mainvars, fmtvars,
      runvars, modvars, planvars, bidvars, selvars, extvars,
      ctorvars, archvars>>
nonctorvars ==
    <<srcvars, expvars, splitvars, prepvars, mainvars, fmtvars,
      runvars, modvars, planvars, bidvars, selvars, extvars,
      hndvars, archvars>>
nonarchvars ==
    <<srcvars, expvars, splitvars, prepvars, mainvars, fmtvars,
      runvars, modvars, planvars, bidvars, selvars, extvars,
      hndvars, ctorvars>>

\* ------------------------------------------------------------------------
\* ModelBase.get_tensors
\* ------------------------------------------------------------------------

NoError == [kind |-> "none", missing |-> {}, extra |-> {}, files |-> {}]

Min(S) == CHOOSE x \in S : \A y \in S : x <= y

\* The sets of tensor names, for every partial weight_map (name -> file).
WeightMaps == UNION {[D -> Files] : D \in SUBSET Names}

\* Lines 160-171: the index file is read when it exists; without one
\* self.tensor_names is the very set object tensor_names_from_parts.
LoadIndex ==
    CASE index_file = "map"  -> [ok |-> TRUE,  names |-> DOMAIN weight_map, wm |-> weight_map]
      [] index_file = "bad"  -> [ok |-> FALSE, names |-> {}, wm |-> <<>>]
      [] index_file = "none" -> [ok |-> TRUE,  names |-> {}, wm |-> <<>>]

\* Lines 173-196: the loop over part_names from position i on, up to the next
\* yield. Opening a shard adds all its keys to tensor_names_from_parts; a shard
\* without tensors yields nothing and the loop goes on to the next one.
RECURSIVE OpenPartMutOverwrite(_, _)
OpenPartMutOverwrite(i, from_parts) ==
    IF i > MaxParts
        THEN [part |-> i, from_parts |-> from_parts, keys |-> {}]
        ELSE IF part_names[i] = {}
            THEN OpenPartMutOverwrite(i + 1, from_parts)
            ELSE [part |-> i, from_parts |-> part_names[i], keys |-> part_names[i]]

RECURSIVE OpenPart(_, _)
OpenPart(i, from_parts) ==
    IF i > MaxParts
        THEN [part |-> i, from_parts |-> from_parts, keys |-> {}]
        ELSE IF part_names[i] = {}
            THEN OpenPart(i + 1, from_parts)
            ELSE [part |-> i, from_parts |-> from_parts \cup part_names[i],
                  keys |-> part_names[i]]

\* Lines 198-209: the verification after the last shard.
VerifyMutNoFiles(from_parts, names, wm) ==
    LET missing == names \ from_parts
        extra   == from_parts \ names
    IN  IF (from_parts \ names) \cup (names \ from_parts) # {}
            THEN [kind |-> "mismatch", missing |-> missing, extra |-> extra, files |-> {}]
            ELSE NoError

VerifyMutIgnoreExtra(from_parts, names, wm) ==
    LET missing == names \ from_parts
        missing_files == {wm[n] : n \in missing \cap DOMAIN wm}
    IN  IF missing # {}
            THEN [kind |-> "missing_files", missing |-> missing, extra |-> {},
                  files |-> missing_files]
            ELSE NoError

Verify(from_parts, names, wm) ==
    LET missing == names \ from_parts
        extra   == from_parts \ names
        missing_files == {wm[n] : n \in missing \cap DOMAIN wm}
    IN  IF (from_parts \ names) \cup (names \ from_parts) # {}
            THEN IF extra = {} /\ missing_files # {}
                    THEN [kind |-> "missing_files", missing |-> missing,
                          extra |-> {}, files |-> missing_files]
                    ELSE [kind |-> "mismatch", missing |-> missing,
                          extra |-> extra, files |-> {}]
            ELSE NoError

RunToYieldMutPerShard(i, from_parts, names, wm) ==
    LET o  == OpenPart(i, from_parts)
        tn == IF index_file = "none" THEN o.from_parts ELSE names
        e  == Verify(o.from_parts, tn, wm)
    IN  IF o.part <= MaxParts /\ e = NoError
            THEN /\ part_i' = o.part
                 /\ tensor_names_from_parts' = o.from_parts
                 /\ tensor_names' = tn
                 /\ yielded' = Append(yielded, Min(o.keys))
                 /\ pending' = o.keys \ {Min(o.keys)}
                 /\ gpc' = "yield"
                 /\ gerr' = NoError
                 /\ compared' = compared + 1
            ELSE /\ part_i' = o.part
                 /\ tensor_names_from_parts' = o.from_parts
                 /\ tensor_names' = tn
                 /\ yielded' = yielded
                 /\ pending' = {}
                 /\ gpc' = IF e = NoError THEN "done" ELSE "error"
                 /\ gerr' = e
                 /\ compared' = compared + 1

\* The generator runs from position i (with the names seen so far) to its next
\* yield, or to its end, where it verifies once and returns or raises.
RunToYield(i, from_parts, names, wm) ==
    LET o  == OpenPart(i, from_parts)
        tn == IF index_file = "none" THEN o.from_parts ELSE names
    IN  IF o.part <= MaxParts
            THEN /\ part_i' = o.part
                 /\ tensor_names_from_parts' = o.from_parts
                 /\ tensor_names' = tn
                 /\ yielded' = Append(yielded, Min(o.keys))
                 /\ pending' = o.keys \ {Min(o.keys)}
                 /\ gpc' = "yield"
                 /\ gerr' = NoError
                 /\ compared' = compared
            ELSE LET e == Verify(o.from_parts, tn, wm)
                 IN  /\ part_i' = o.part
                     /\ tensor_names_from_parts' = o.from_parts
                     /\ tensor_names' = tn
                     /\ yielded' = yielded
                     /\ pending' = {}
                     /\ gpc' = IF e = NoError THEN "done" ELSE "error"
                     /\ gerr' = e
                     /\ compared' = compared + 1

\* The first next() on the generator: lines 154-171, then the loop.
GetTensorsStart ==
    /\ gpc = "new"
    /\ LET ix == LoadIndex
       IN  IF ~ix.ok
               THEN /\ gpc' = "error"
                    /\ gerr' = [kind |-> "weight_map", missing |-> {}, extra |-> {},
                                files |-> {}]
                    /\ tensor_names' = {}
                    /\ UNCHANGED <<tensor_names_from_parts, part_i, pending,
                                   yielded, compared>>
               ELSE RunToYield(1, {}, ix.names, ix.wm)
    /\ UNCHANGED <<index_file, weight_map, part_names>>
    /\ UNCHANGED nonsrcvars

\* A later next(): the generator resumes after its yield.
GetTensorsResume ==
    /\ gpc = "yield"
    /\ IF pending # {}
           THEN /\ yielded' = Append(yielded, Min(pending))
                /\ pending' = pending \ {Min(pending)}
                /\ UNCHANGED <<tensor_names, tensor_names_from_parts, part_i,
                               gpc, gerr, compared>>
           ELSE RunToYield(part_i + 1, tensor_names_from_parts, tensor_names,
                           IF index_file = "map" THEN weight_map ELSE <<>>)
    /\ UNCHANGED <<index_file, weight_map, part_names>>
    /\ UNCHANGED nonsrcvars

\* The consumer stops pulling (ModelBase.__init__ takes the first tensor only):
\* the suspended generator is never resumed.
ConsumerStops ==
    /\ gpc = "yield"
    /\ gpc' = "dropped"
    /\ UNCHANGED <<index_file, weight_map, part_names, tensor_names,
                   tensor_names_from_parts, part_i, pending, gerr, yielded,
                   compared>>
    /\ UNCHANGED nonsrcvars

\* No modify_tensors call on tensor objects.
IdleModify ==
    /\ mod_cls = "ModelBase"
    /\ eager = FALSE
    /\ mod_hparams = [rescale_every |-> <<>>, norm_head |-> FALSE]
    /\ mod_name = "token_embd.weight"
    /\ mod_bid = <<>>
    /\ heap = <<>>
    /\ mod_ret = <<>>
    /\ mod_pc = "returned"

\* No shard plan under way.
IdlePlan ==
    /\ split_max_tensors = 0
    /\ split_max_size = 0
    /\ small_first_shard = FALSE
    /\ n_tensors = 0
    /\ shards = <<>>
    /\ plan_pc = "planned"

\* No tensor name being parsed.
IdleBid ==
    /\ raw_name = <<>>
    /\ raw_bid = <<>>
    /\ bid_pc = "parsed"

\* No encoding being selected.
IdleSelect ==
    /\ sel_cls = "LlamaModel"
    /\ sel_ftype = "ALL_F32"
    /\ sel_name = "token_embd.weight"
    /\ sel_dims = 2
    /\ sel_qtype = "F32"
    /\ sel_pc = "selected"

\* No tensor pass with synthetic tensors.
IdleExtra ==
    /\ ext_cls = "TextModel"
    /\ ext_ftype = "ALL_F32"
    /\ rope_scaling = FALSE
    /\ shard_tensors = <<>>
    /\ n_pulled = 0
    /\ chained = <<>>
    /\ gguf_tensors = <<>>
    /\ ext_pc = "done"

\* No handler of this kind at work.
IdleHandler ==
    /\ hnd_cls = "MambaModel"
    /\ hnd_queue = <<>>
    /\ tok_embd = <<>>
    /\ shared_token_embeddings_found = FALSE
    /\ hnd_calls = <<>>

\* No construction under way.
IdleCtor ==
    /\ args_outtype = "f16"
    /\ first_tensor = <<>>
    /\ self_ftype = "unset"
    /\ ctor_pc = "raised"
    /\ ctor_tensor = <<>>
    /\ ctor_qtype = "False"

\* get_model_architecture at rest.
IdleArch ==
    /\ arch_hparams = <<>>
    /\ arch_model_type = "TEXT"
    /\ arch_ret = <<"ValueError">>

\* No conversion under way.
IdleRuns ==
    /\ run_cls = "LlamaModel"
    /\ run_ftype = "ALL_F32"
    /\ same_process = FALSE
    /\ shard_of = <<>>
    /\ listing = <<>>
    /\ run = 1
    /\ rpc = "done"
    /\ queue = <<>>
    /\ lerp_weights = <<>>
    /\ passed = <<>>

\* format_tensor_name at rest.
IdleFormat ==
    /\ fmt_arch = "LLAMA"
    /\ fmt_key = "TOKEN_EMBD"
    /\ fmt_bid = <<>>
    /\ fmt_suffix = ".weight"
    /\ fmt_ret = [err |-> "none", name |-> <<"token_embd", ".weight">>]

\* main at rest.
IdleMain ==
    /\ model_classes = <<>>
    /\ decl_i = 0
    /\ model_architecture = "none"
    /\ mmproj = FALSE
    /\ vocab_only = FALSE
    /\ model_class = "none"
    /\ mpc = "exit"
    /\ exit_status = "none"
    /\ events = <<>>

\* write() at rest.
IdlePrepare ==
    /\ model_cls = "TextModel"
    /\ ftype = "ALL_F32"
    /\ model_names = {}
    /\ source_end = "ok"
    /\ writer = <<>>
    /\ warnings = 0
    /\ wpc = "done"
    /\ werr = "none"
    /\ out_file = "none"
    /\ calls = <<>>

\* The splitting handlers at rest.
IdleSplit ==
    /\ split_cls = "RefactModel"
    /\ split_hparams = <<>>
    /\ split_name = "other"
    /\ split_bid = "None"
    /\ data_torch = <<>>
    /\ tensors = <<>>
    /\ split_pc = "returned"
    /\ split_err = "none"

\* The handler part at rest (SpecSource does not run it).
IdleExperts ==
    /\ handler = "LlamaModel"
    /\ n_experts = 1
    /\ block_count = 1
    /\ experts = <<>>
    /\ ppc = "idle"
    /\ perr = [kind |-> "none", names |-> {}]
    /\ ret = <<>>
    /\ received = <<>>
    /\ ncalls = 0

\* The generator part at rest (SpecExperts draws its stream directly).
IdleSource ==
    /\ index_file = "none"
    /\ weight_map = <<>>
    /\ part_names = [f \in Files |-> {}]
    /\ tensor_names = {}
    /\ tensor_names_from_parts = {}
    /\ part_i = 0
    /\ pending = {}
    /\ gpc = "new"
    /\ gerr = [kind |-> "none", missing |-> {}, extra |-> {}, files |-> {}]
    /\ yielded = <<>>
    /\ compared = 0

InitSource ==
    /\ IdleArch
    /\ IdleCtor
    /\ IdleHandler
    /\ IdleExtra
    /\ IdleSelect
    /\ IdleBid
    /\ IdlePlan
    /\ IdleModify
    /\ IdleRuns
    /\ IdleFormat
    /\ IdleMain
    /\ IdleExperts
    /\ IdleSplit
    /\ IdlePrepare
    /\ index_file \in {"none", "bad", "map"}
    /\ weight_map \in IF index_file = "map" THEN WeightMaps ELSE {<<>>}
    /\ part_names \in [Files -> SUBSET Names]
    /\ tensor_names = {}
    /\ tensor_names_from_parts = {}
    /\ part_i = 0
    /\ pending = {}
    /\ gpc = "new"
    /\ gerr = NoError
    /\ yielded = <<>>
    /\ compared = 0

NextSource ==
    \/ GetTensorsStart
    \/ GetTensorsResume
    \/ ConsumerStops

SpecSource == InitSource /\ [][NextSource]_vars

\* ------------------------------------------------------------------------
\* Properties of get_tensors (under SpecSource)
\* ------------------------------------------------------------------------

\* every tensor name present in some shard file
PartsUnion == UNION {part_names[f] : f \in Files}
\* how often a name was yielded, and in how many shard files it occurs
Count(n) == Cardinality({i \in DOMAIN yielded : yielded[i] = n})
Occurs(n) == Cardinality({f \in Files : n \in part_names[f]})
YieldedSet == {yielded[i] : i \in DOMAIN yielded}
\* the generator was pulled until it returned or raised
Drained == gpc \in {"done", "error"}
SourceMismatch == gerr.kind \in {"missing_files", "mismatch"}

\* C1 as stated: with an index whose weight_map names exactly the tensors
\* present in the shard files, a full drain raises nothing and yields every
\* indexed name exactly once and no other name.
C1_Original ==
    (index_file = "map" /\ DOMAIN weight_map = PartsUnion /\ Drained)
        => /\ gpc = "done"
           /\ YieldedSet = DOMAIN weight_map
           /\ \A n \in DOMAIN weight_map : Count(n) = 1

\* C1 amended: with an index whose weight_map names exactly the tensors
\* present in the shard files, a full drain raises nothing, yields every
\* indexed name and no other name, and yields a name once per shard file that
\* holds it (so exactly once when no name is in two shard files); the set of
\* yielded names is the union of the shard contents, whatever file holds what.
C1_YieldsIndexedNames ==
    (index_file = "map" /\ DOMAIN weight_map = PartsUnion /\ Drained)
        => /\ gpc = "done"
           /\ gerr = NoError
           /\ YieldedSet = DOMAIN weight_map
           /\ YieldedSet = PartsUnion
           /\ \A n \in Names : Count(n) = Occurs(n)

C1_Witness ==
    /\ index_file = "map" /\ DOMAIN weight_map = PartsUnion /\ gpc = "done"
    /\ \A f \in Files : part_names[f] # {}
    /\ \A n \in Names : Occurs(n) = 1

\* C2: when the index names tensors no shard holds and the shards hold nothing
\* outside the index, a full drain raises the error that lists every missing
\* tensor name and every shard file the index assigns a missing tensor to.
C2_MissingNamesFiles ==
    (/\ index_file = "map"
     /\ DOMAIN weight_map \ PartsUnion # {}
     /\ PartsUnion \subseteq DOMAIN weight_map
     /\ Drained)
        => /\ gpc = "error"
           /\ gerr.kind = "missing_files"
           /\ gerr.missing = DOMAIN weight_map \ PartsUnion
           /\ gerr.files = {weight_map[n] : n \in DOMAIN weight_map \ PartsUnion}

C2_Witness ==
    /\ gpc = "error" /\ gerr.kind = "missing_files"
    /\ yielded # <<>>
    /\ gerr.missing # {}

\* C3 as stated: whenever an index file exists and a shard holds a name the
\* index does not list, a full drain ends with the mismatch error naming the
\* extra tensors; without an index file no missing/extra error is raised.
C3_Original ==
    /\ (index_file # "none" /\ PartsUnion \ DOMAIN weight_map # {} /\ Drained)
          => (gpc = "error" /\ gerr.kind = "mismatch"
              /\ gerr.extra = PartsUnion \ DOMAIN weight_map)
    /\ (index_file = "none" => ~SourceMismatch)

\* C3 amended: when an index file with a weight_map exists and a shard holds a
\* name the weight_map does not list, a full drain ends with the mismatch
\* error naming exactly the extra tensors; an index file without a weight_map
\* dict makes the first pull raise "Can't load 'weight_map'" before any tensor
\* is yielded; without an index file get_tensors never raises.
C3_ExtraIsFatalWithIndex ==
    /\ (index_file = "map" /\ PartsUnion \ DOMAIN weight_map # {} /\ Drained)
          => (gpc = "error" /\ gerr.kind = "mismatch"
              /\ gerr.extra = PartsUnion \ DOMAIN weight_map)
    /\ (index_file = "bad" /\ gpc # "new")
          => (gpc = "error" /\ gerr.kind = "weight_map" /\ yielded = <<>>)
    /\ (index_file = "none" => (gerr = NoError /\ gpc # "error"))

C3_Witness ==
    /\ index_file = "map" /\ gpc = "error" /\ gerr.kind = "mismatch"
    /\ gerr.extra # {} /\ gerr.missing # {}

\* C4: the verification of the index against the observed names runs at most
\* once per generator, and only when every tensor of every shard has been
\* yielded; it has run exactly when the generator returned or raised a
\* missing/extra error; a consumer that stopped early finds no such error.
C4_VerifyOnceAtEnd ==
    /\ compared <= 1
    /\ compared = 1 <=> (gpc = "done" \/ (gpc = "error" /\ SourceMismatch))
    /\ compared = 1 => (/\ part_i > MaxParts
                        /\ \A n \in Names : Count(n) = Occurs(n))
    /\ SourceMismatch => compared = 1
    /\ gpc \in {"yield", "dropped"} => (gerr = NoError /\ compared = 0)

\* the consumer took the first tensor only, where a full drain would have
\* raised: the index names a tensor that no shard holds
C4_Witness ==
    /\ gpc = "dropped" /\ Len(yielded) = 1
    /\ index_file = "map" /\ DOMAIN weight_map \ PartsUnion # {}

\* ------------------------------------------------------------------------
\* The expert-merging handlers: LlamaModel (lines 1969-2067) and GrokModel
\* (lines 2494-2531)
\* ------------------------------------------------------------------------

\* The weight kinds of the merge loop: "for wid in [...]".
WeightKinds(h) ==
    IF h = "LlamaModel" THEN <<"w1", "w2", "w3">>
                        ELSE <<"linear", "linear_1", "linear_v">>

Blocks == 0..(block_count - 1)

\* The raw name of expert xid's weight of kind wid in block bid: the f-string
\* "model.layers.{bid}.block_sparse_moe.experts.{xid}.{wid}.weight"
\* (GrokModel: "transformer.decoder_layer.{bid}.moe.{xid}.{wid}.weight").
ExpertName(bid, xid, wid) == [kind |-> "expert", bid |-> bid, xid |-> xid, wid |-> wid]

\* A raw tensor that is no expert weight (e.g. "model.norm.weight").
PlainName == [kind |-> "plain"]

\* The raw names a stream may deliver: per block the expert weights of experts
\* 0..n_experts-1 and a weight of an expert index the configuration does not
\* have (xid = n_experts), and a tensor that is no expert weight.
RawNames ==
    {ExpertName(b, x, WeightKinds(handler)[k]) :
        b \in Blocks, x \in 0..(n_experts - 1), k \in 1..3}
    \cup {ExpertName(b, n_experts, WeightKinds(handler)[1]) : b \in Blocks}
    \cup {PlainName}

\* The tensor a shard holds under a name; a name delivered again (from another
\* shard file) comes with other data.
Tensor(name, again) == [of |-> name, again |-> again]

\* name.find("block_sparse_moe.experts") != -1, name.find(".moe.") != -1
IsExpertName(name) == name.kind = "expert"

\* self.map_tensor_name of a merged name: the stacked tensor of a kind of a
\* block; of a plain name: its canonical name.
MergedName(bid, wid) == [kind |-> "merged", bid |-> bid, wid |-> wid]
MapPlainName(name) == [kind |-> "mapped", of |-> name]

\* The enames of block bid in the order the merge loop reads them: for each
\* wid, for xid in range(n_experts).
MergeOrderMutByExpert(h, bid, n) ==
    [k \in 1..(3 * n) |->
        ExpertName(bid, (k - 1) \div 3, WeightKinds(h)[((k - 1) % 3) + 1])]

MergeOrder(h, bid, n) ==
    [k \in 1..(3 * n) |->
        ExpertName(bid, (k - 1) % n, WeightKinds(h)[((k - 1) \div n) + 1])]

\* dict with key k set to v, and dict without the keys in ks
DictSet(d, k, v) == [x \in DOMAIN d \cup {k} |-> IF x = k THEN v ELSE d[x]]
DictDel(d, ks) == [x \in DOMAIN d \ ks |-> d[x]]

\* The merge loop over one block's dict d: every ename is read and deleted in
\* MergeOrder; the first ename that is not a key raises KeyError, with the
\* enames before it already deleted. torch.stack(datas, dim=0) is the
\* sequence of the n tensors read for a kind, expert 0 first.
MergeExperts(h, bid, n, d) ==
    LET order   == MergeOrder(h, bid, n)
        absent  == {k \in DOMAIN order : order[k] \notin DOMAIN d}
        stop    == IF absent = {} THEN 3 * n + 1 ELSE Min(absent)
        deleted == {order[k] : k \in 1..(stop - 1)}
    IN  IF absent = {}
            THEN [ok      |-> TRUE,
                  dict    |-> DictDel(d, deleted),
                  tensors |-> [j \in 1..3 |->
                                 [name |-> MergedName(bid, WeightKinds(h)[j]),
                                  data |-> [i \in 1..n |-> d[order[(j - 1) * n + i]]]]]]
            ELSE [ok |-> FALSE, dict |-> DictDel(d, deleted), tensors |-> <<>>]

\* Lines 2000-2026 (2503-2529): buffer the tensor; when the block's dict holds
\* n_experts * 3 entries or more, merge.
BufferExpertMutPerKind(h, n, exps, name, data) ==
    LET bid  == name.bid
        d    == DictSet(exps[bid], name, data)
        mine == {ExpertName(bid, x, name.wid) : x \in 0..(n - 1)}
        j    == CHOOSE k \in 1..3 : WeightKinds(h)[k] = name.wid
    IN  IF mine \subseteq DOMAIN d /\ j \in 1..3
            THEN [ok |-> TRUE, experts |-> [exps EXCEPT ![bid] = DictDel(d, mine)],
                  tensors |-> <<[name |-> MergedName(bid, name.wid),
                                 data |-> [i \in 1..n |-> d[ExpertName(bid, i - 1, name.wid)]]]>>]
            ELSE [ok |-> TRUE, experts |-> [exps EXCEPT ![bid] = d], tensors |-> <<>>]

BufferExpertMutKeepBuffer(h, n, exps, name, data) ==
    LET bid == name.bid
        d   == DictSet(exps[bid], name, data)
    IN  IF Cardinality(DOMAIN d) >= n * 3
            THEN LET m == MergeExperts(h, bid, n, d)
                 IN  [ok |-> m.ok, experts |-> [exps EXCEPT ![bid] = d],
                      tensors |-> m.tensors]
            ELSE [ok |-> TRUE, experts |-> [exps EXCEPT ![bid] = d], tensors |-> <<>>]

BufferExpert(h, n, exps, name, data) ==
    LET bid == name.bid
        d   == DictSet(exps[bid], name, data)
    IN  IF Cardinality(DOMAIN d) >= n * 3
            THEN LET m == MergeExperts(h, bid, n, d)
                 IN  [ok |-> m.ok, experts |-> [exps EXCEPT ![bid] = m.dict],
                      tensors |-> m.tensors]
            ELSE [ok |-> TRUE, experts |-> [exps EXCEPT ![bid] = d], tensors |-> <<>>]

NoPrepareError == [kind |-> "none", names |-> {}]

\* One iteration of the loop of prepare_tensors (line 259): the stream yields
\* (name, data_torch) and the handler's modify_tensors is called on it.
ModifyTensors(name) ==
    /\ ppc = "run"
    /\ ncalls < MaxCalls
    /\ LET data == Tensor(name, IsExpertName(name) /\ received[name] > 0)
       IN  IF IsExpertName(name)
               THEN LET exps == IF experts = <<>>
                                    THEN [b \in Blocks |-> <<>>]
                                    ELSE experts
                        r    == BufferExpert(handler, n_experts, exps, name, data)
                    IN  /\ experts' = r.experts
                        /\ ret' = r.tensors
                        /\ ppc' = IF r.ok THEN "run" ELSE "error"
                        /\ perr' = IF r.ok THEN NoPrepareError
                                   ELSE [kind |-> "KeyError", names |-> {}]
               ELSE /\ ret' = <<[name |-> MapPlainName(name), data |-> data]>>
                    /\ UNCHANGED <<experts, ppc, perr>>
    /\ received' = IF IsExpertName(name)
                       THEN [received EXCEPT ![name] = IF @ = 0 THEN 1 ELSE 2]
                       ELSE received
    /\ ncalls' = ncalls + 1
    /\ UNCHANGED <<handler, n_experts, block_count>>
    /\ UNCHANGED nonexpvars

\* every raw name still buffered in self._experts, over all blocks
Buffered(exps) == UNION {DOMAIN exps[b] : b \in DOMAIN exps}

\* LlamaModel.prepare_tensors after super().prepare_tensors() (lines
\* 2063-2067); GrokModel inherits ModelBase.prepare_tensors and has no such
\* check.
FinalCheckMutNone(h, exps) == NoPrepareError

FinalCheck(h, exps) ==
    IF h = "LlamaModel" /\ exps # <<>> /\ Buffered(exps) # {}
        THEN [kind |-> "Unprocessed experts", names |-> Buffered(exps)]
        ELSE NoPrepareError

\* The stream ends: get_tensors verifies the index (lines 198-209) and either
\* raises, which ends prepare_tensors, or returns; then the handler's own
\* prepare_tensors checks its buffers.
StreamEnds(source_ok) ==
    /\ ppc = "run"
    /\ LET e == IF source_ok THEN FinalCheck(handler, experts)
                ELSE [kind |-> "source", names |-> {}]
       IN  /\ perr' = e
           /\ ppc' = IF e = NoPrepareError THEN "done" ELSE "error"
    /\ ret' = <<>>
    /\ UNCHANGED <<handler, n_experts, block_count, experts, received, ncalls>>
    /\ UNCHANGED nonexpvars

InitExperts ==
    /\ IdleArch
    /\ IdleCtor
    /\ IdleHandler
    /\ IdleExtra
    /\ IdleSelect
    /\ IdleBid
    /\ IdlePlan
    /\ IdleModify
    /\ IdleRuns
    /\ IdleFormat
    /\ IdleMain
    /\ IdleSource
    /\ IdleSplit
    /\ IdlePrepare
    /\ handler \in {"LlamaModel", "GrokModel"}
    /\ n_experts \in 1..MaxSlots
    /\ block_count \in 1..MaxSlots
    /\ n_experts * block_count <= MaxSlots
    /\ experts = <<>>
    /\ ppc = "run"
    /\ perr = NoPrepareError
    /\ ret = <<>>
    /\ received = [name \in RawNames \ {PlainName} |-> 0]
    /\ ncalls = 0

NextExperts ==
    \/ \E name \in RawNames : ModifyTensors(name)
    \/ \E source_ok \in BOOLEAN : StreamEnds(source_ok)

SpecExperts == InitExperts /\ [][NextExperts]_vars

\* ------------------------------------------------------------------------
\* Properties of the expert-merging handlers (under SpecExperts)
\* ------------------------------------------------------------------------

\* the dict of block b before self._experts is created counts as empty
DictOf(exps, b) == IF exps = <<>> THEN <<>> ELSE exps[b]
Size(d) == Cardinality(DOMAIN d)
\* the raw names of the n_experts experts of kind number k of block b
Group(b, k) == {ExpertName(b, x, WeightKinds(handler)[k]) : x \in 0..(n_experts - 1)}
AllGroups(b) == Group(b, 1) \cup Group(b, 2) \cup Group(b, 3)
\* the block's dict as the call on name finds it after storing the tensor
Stored(name) ==
    DictSet(DictOf(experts, name.bid), name, Tensor(name, received[name] > 0))
\* the step is a modify_tensors call on the expert tensor name
ExpertCall(name) ==
    /\ IsExpertName(name)
    /\ ncalls' = ncalls + 1
    /\ received' = [received EXCEPT ![name] = IF @ = 0 THEN 1 ELSE 2]
    /\ ModifyTensors(name)
\* ret is the three stacked tensors of block b, one per kind, in loop order
ThreeStacks(r, b) ==
    /\ Len(r) = 3
    /\ \A j \in 1..3 : /\ r[j].name = MergedName(b, WeightKinds(handler)[j])
                       /\ Len(r[j].data) = n_experts
\* prepare_tensors ended where the stream was exhausted and verified
StreamExhausted == ppc = "done" \/ (ppc = "error" /\ perr.kind = "Unprocessed experts")

\* C5 as stated: after every call every block's buffer holds fewer than
\* 3 * n_experts tensors; the call that brings a block's buffer to
\* 3 * n_experts entries returns the three stacked tensors and leaves the
\* block's buffer empty; every other call on an expert tensor returns nothing.
C5_Original ==
    [][\A name \in RawNames : ExpertCall(name) =>
          /\ \A b \in Blocks : Size(experts'[b]) < 3 * n_experts
          /\ IF Size(Stored(name)) = 3 * n_experts
                 THEN ThreeStacks(ret', name.bid) /\ experts'[name.bid] = <<>>
                 ELSE ret' = <<>>]_vars

\* C5 amended: after every call that returns, every block's buffer holds fewer
\* than 3 * n_experts tensors. The call that brings a block's buffer to
\* 3 * n_experts entries returns the three stacked tensors, one per weight
\* kind, and leaves the block's buffer empty when those entries are the
\* weights of experts 0..n_experts-1 of the three kinds; when another name
\* matching the expert pattern is among them, that call raises KeyError
\* instead. Every earlier call for the block returns no tensor and keeps the
\* tensor buffered.
C5_DrainAtFullBlock ==
    [][\A name \in RawNames : ExpertCall(name) =>
          /\ ppc' = "run" => \A b \in Blocks : Size(experts'[b]) < 3 * n_experts
          /\ Size(Stored(name)) <= 3 * n_experts
          /\ (Size(Stored(name)) = 3 * n_experts /\ DOMAIN Stored(name) = AllGroups(name.bid))
                => /\ ppc' = "run"
                   /\ ThreeStacks(ret', name.bid)
                   /\ experts'[name.bid] = <<>>
          /\ (Size(Stored(name)) = 3 * n_experts /\ DOMAIN Stored(name) # AllGroups(name.bid))
                => /\ ppc' = "error"
                   /\ perr'.kind = "KeyError"
                   /\ ret' = <<>>
          /\ Size(Stored(name)) < 3 * n_experts
                => /\ ppc' = "run"
                   /\ ret' = <<>>
                   /\ experts'[name.bid] = Stored(name)]_vars

\* a block has just been drained while another block is still accumulating
C5_Witness ==
    /\ ppc = "run" /\ block_count = 2 /\ Len(ret) = 3
    /\ \E b \in Blocks : ret[1].name.bid = b /\ experts[b] = <<>>
    /\ \E b \in Blocks : experts[b] # <<>>

\* C6 as stated: when the stream ends while some block of a LlamaModel has
\* received fewer than 3 * n_experts expert tensors, prepare_tensors raises
\* the error naming every tensor still buffered.
ReceivedOf(b) ==
    {name \in RawNames : IsExpertName(name) /\ name.bid = b /\ received[name] > 0}

C6_Original ==
    (/\ handler = "LlamaModel"
     /\ StreamExhausted
     /\ \E b \in Blocks : Cardinality(ReceivedOf(b)) < 3 * n_experts)
        => /\ ppc = "error"
           /\ perr.kind = "Unprocessed experts"
           /\ perr.names = Buffered(experts)

\* C6 amended: when the stream ends while some block of a LlamaModel has
\* received at least one but fewer than 3 * n_experts expert tensors,
\* prepare_tensors raises, after the stream is exhausted, the error naming
\* every tensor still buffered, across all blocks; a block that received no
\* expert tensor at all raises nothing.
C6_UnprocessedExperts ==
    (handler = "LlamaModel" /\ StreamExhausted)
        => /\ (\E b \in Blocks : Cardinality(ReceivedOf(b)) \in 1..(3 * n_experts - 1))
                => ppc = "error"
           /\ ppc = "error" <=> (experts # <<>> /\ Buffered(experts) # {})
           /\ ppc = "error" => perr.names = Buffered(experts)
           /\ (\A b \in Blocks : ReceivedOf(b) = {}) => ppc = "done"

\* the error names buffered tensors of two blocks
C6_Witness ==
    /\ handler = "LlamaModel" /\ ppc = "error"
    /\ perr.kind = "Unprocessed experts"
    /\ block_count = 2
    /\ \A b \in Blocks : \E name \in perr.names : name.bid = b

\* C7: when the stream of a GrokModel ends while a block's expert buffer is
\* not empty, the conversion fails with the unprocessed-experts error naming
\* the buffered tensors.
C7_GrokUnprocessedExperts ==
    (/\ handler = "GrokModel"
     /\ ppc \in {"done", "error"}
     /\ perr.kind \notin {"KeyError", "source"}
     /\ experts # <<>>
     /\ Buffered(experts) # {})
        => /\ ppc = "error"
           /\ perr.kind = "Unprocessed experts"
           /\ perr.names = Buffered(experts)

\* C8: a conversion in which a raw expert tensor name was delivered a second
\* time, so that its (block, weight kind) group received more than n_experts
\* tensors, does not complete: it fails with an error. (Stated for the runs
\* that end with every buffer drained, where no other check can fail.)
C8_DuplicateExpertIsFatal ==
    (ppc = "done" /\ experts # <<>> /\ Buffered(experts) = {})
        => \A b \in Blocks : \A k \in 1..3 :
              \A name \in Group(b, k) : received[name] < 2

\* C9 as stated: the group of a weight kind of a block is drained in the very
\* call that delivers its n_experts-th tensor, so no call returns leaving the
\* n_experts tensors of a kind of a block in the buffer.
C9_Original ==
    (ppc = "run" /\ experts # <<>>)
        => \A b \in Blocks : \A k \in 1..3 : ~(Group(b, k) \subseteq DOMAIN experts[b])

\* C9 amended: the groups of a block are drained together: the stacked tensor
\* of weight kind w of block b is emitted, and the group's buffer entries
\* deleted, in the modify_tensors call that delivers the last missing tensor
\* of block b, of whatever kind, together with the stacked tensors of the
\* other two kinds; a group that is complete while another kind of its block
\* is not stays buffered and nothing is emitted for it.
C9_GroupsDrainTogether ==
    [][\A name \in RawNames : (ExpertCall(name) /\ ppc' = "run") =>
          LET b == name.bid
              stored == DOMAIN Stored(name)
              complete(k) == Group(b, k) \subseteq stored
              all_complete == \A j \in 1..3 : complete(j)
              emitted(k)  == \E j \in DOMAIN ret' :
                                 ret'[j].name = MergedName(b, WeightKinds(handler)[k])
          IN  \A k \in 1..3 :
                /\ emitted(k) <=> all_complete
                /\ emitted(k) => Group(b, k) \cap DOMAIN experts'[b] = {}
                /\ (complete(k) /\ ~emitted(k)) => Group(b, k) \subseteq DOMAIN experts'[b]]_vars

\* both experts of one kind are buffered and nothing was emitted for them
C9_Witness ==
    /\ ppc = "run" /\ n_experts = 2 /\ experts # <<>> /\ ret = <<>>
    /\ \E b \in Blocks : \E k \in 1..3 :
          /\ Group(b, k) \subseteq DOMAIN experts[b]
          /\ Size(experts[b]) = 2

\* C10: every stacked tensor a handler returns has leading dimension
\* n_experts, and its slice i is the tensor last delivered under the raw name
\* of expert i of that kind and block, whatever the order of arrival.
C10_StackIsExpertsInOrder ==
    \A j \in DOMAIN ret : ret[j].name.kind = "merged" =>
        /\ Len(ret[j].data) = n_experts
        /\ \A x \in 0..(n_experts - 1) :
              LET raw == ExpertName(ret[j].name.bid, x, ret[j].name.wid)
              IN  ret[j].data[x + 1] = Tensor(raw, received[raw] = 2)

\* the six tensors of a block with two experts were stacked, two per kind
C10_Witness ==
    /\ n_experts = 2 /\ Len(ret) = 3
    /\ \A j \in 1..3 : ret[j].name.kind = "merged" /\ Len(ret[j].data) = 2
    /\ ret[1].data[1].of.xid = 0 /\ ret[1].data[2].of.xid = 1

\* ------------------------------------------------------------------------
\* RefactModel.modify_tensors and GraniteMoeModel.modify_tensors
\* ------------------------------------------------------------------------

\* A tensor is the sequence of its rows along the axis the handler cuts
\* (axis 0 for RefactModel, axis -2 for GraniteMoeModel); a row is named by
\* its position in the input tensor.
Rows(n) == [i \in 1..n |-> i]

Smaller(a, b) == IF a <= b THEN a ELSE b

\* data_torch[:c] and data_torch[c:] for a cut c >= 0: Python clamps the
\* cut to the length.
SliceTo(x, c) == SubSeq(x, 1, Smaller(c, Len(x)))

SliceFromMutSkipRow(x, c) == SubSeq(x, Smaller(c, Len(x)) + 2, Len(x))

SliceFrom(x, c) == SubSeq(x, Smaller(c, Len(x)) + 1, Len(x))

\* Tensor.split(size, dim): chunks of size rows, the last one shorter; one
\* chunk for an empty axis; a size of 0 is accepted for an empty axis only.
TorchSplit(x, size) ==
    IF size = 0
        THEN IF Len(x) = 0 THEN [ok |-> TRUE, chunks |-> <<x>>]
                           ELSE [ok |-> FALSE, chunks |-> <<>>]
        ELSE LET n == IF Len(x) = 0 THEN 1 ELSE (Len(x) + size - 1) \div size
             IN  [ok |-> TRUE,
                  chunks |-> [i \in 1..n |->
                      SubSeq(x, (i - 1) * size + 1, Smaller(i * size, Len(x)))]]

\* Lines 1779-1783: ff_dim of RefactModel, a multiple of multiple_of.
multiple_of == 256

RefactFfDim(n_embd) ==
    LET inner_dim  == 4 * n_embd
        hidden_dim == (2 * inner_dim) \div 3
    IN  multiple_of * ((hidden_dim + multiple_of - 1) \div multiple_of)

\* The result of one call: the returned list, or the exception raised.
Returned(list) == [err |-> "none", tensors |-> list]
Raised(e) == [err |-> e, tensors |-> <<>>]

\* Lines 1778-1803.
RefactModifyTensorsResult(hp, name, bid, data) ==
    IF hp.n_head = 0
        THEN Raised("ZeroDivisionError")
        ELSE LET ff_dim    == RefactFfDim(hp.n_embd)
                 n_head_kv == 1
                 head_dim  == hp.n_embd \div hp.n_head
             IN  IF bid # "None" /\ name = "attn.kv"
                     THEN Returned(<< <<"ATTN_K", SliceTo(data, n_head_kv * head_dim)>>,
                                      <<"ATTN_V", SliceFrom(data, n_head_kv * head_dim)>> >>)
                 ELSE IF bid # "None" /\ name = "attn.q"
                     THEN Returned(<< <<"ATTN_Q", data>> >>)
                 ELSE IF bid # "None" /\ name = "mlp.gate_up_proj"
                     THEN Returned(<< <<"FFN_GATE", SliceTo(data, ff_dim)>>,
                                      <<"FFN_UP", SliceFrom(data, ff_dim)>> >>)
                 ELSE Returned(<< <<"mapped", data>> >>)

\* Lines 6918-6948: gate, up = data_torch.split(ffn_dim, dim=-2) after the
\* assertion on the size of the axis; unpacking needs exactly two chunks.
GraniteSplit(data, ffn_dim, gate_key, up_key) ==
    IF Len(data) # 2 * ffn_dim
        THEN Raised("AssertionError")
        ELSE LET sp == TorchSplit(data, ffn_dim)
             IN  IF ~sp.ok THEN Raised("RuntimeError")
                 ELSE IF Len(sp.chunks) # 2 THEN Raised("ValueError")
                 ELSE Returned(<< <<gate_key, sp.chunks[1]>>,
                                  <<up_key, sp.chunks[2]>> >>)

GraniteModifyTensorsResult(hp, name, bid, data) ==
    LET has_experts == hp.num_local_experts # 0
    IN  IF name = "block_sparse_moe.input_linear"
            THEN GraniteSplit(data, hp.intermediate_size,
                              "FFN_GATE_EXP", "FFN_UP_EXP")
        ELSE IF name = "shared_mlp.input_linear"
            THEN IF has_experts
                    THEN GraniteSplit(data, hp.shared_intermediate_size,
                                      "FFN_GATE_SHEXP", "FFN_UP_SHEXP")
                    ELSE GraniteSplit(data, hp.shared_intermediate_size,
                                      "FFN_GATE", "FFN_UP")
        ELSE IF ~has_experts /\ name = "shared_mlp.output_linear"
            THEN Returned(<< <<"FFN_DOWN", data>> >>)
        ELSE Returned(<< <<"mapped", data>> >>)

SplitReturn(r) ==
    /\ split_pc' = IF r.err = "none" THEN "returned" ELSE "error"
    /\ split_err' = r.err
    /\ tensors' = r.tensors
    /\ UNCHANGED <<split_cls, split_hparams, split_name, split_bid, data_torch>>
    /\ UNCHANGED nonsplitvars

RefactModifyTensors ==
    /\ split_pc = "call"
    /\ split_cls = "RefactModel"
    /\ SplitReturn(RefactModifyTensorsResult(split_hparams, split_name,
                                             split_bid, data_torch))

GraniteMoeModifyTensors ==
    /\ split_pc = "call"
    /\ split_cls = "GraniteMoeModel"
    /\ SplitReturn(GraniteModifyTensorsResult(split_hparams, split_name,
                                              split_bid, data_torch))

Dims == 0..MaxDim
RowCounts == 0..(2 * MaxDim + MaxExtra)

RefactNames == {"attn.kv", "attn.q", "mlp.gate_up_proj", "other"}
GraniteNames == {"block_sparse_moe.input_linear", "shared_mlp.input_linear",
                 "shared_mlp.output_linear", "other"}

\* The inputs of one call: a configuration, a raw tensor name with the block
\* index prepare_tensors parsed from it, and a tensor of any row count (the
\* row counts around ff_dim included for RefactModel).
InitSplit ==
    /\ IdleArch
    /\ IdleCtor
    /\ IdleHandler
    /\ IdleExtra
    /\ IdleSelect
    /\ IdleBid
    /\ IdlePlan
    /\ IdleModify
    /\ IdleRuns
    /\ IdleFormat
    /\ IdleMain
    /\ IdleSource
    /\ IdleExperts
    /\ IdlePrepare
    /\ split_cls \in {"RefactModel", "GraniteMoeModel"}
    /\ split_hparams \in
         IF split_cls = "RefactModel"
            THEN [n_embd : Dims, n_head : Dims, intermediate_size : {0},
                  shared_intermediate_size : {0}, num_local_experts : {0}]
            ELSE [n_embd : {0}, n_head : {0}, intermediate_size : Dims,
                  shared_intermediate_size : Dims, num_local_experts : 0..1]
    /\ split_name \in IF split_cls = "RefactModel" THEN RefactNames
                                                   ELSE GraniteNames
    /\ split_bid \in IF split_name = "other" THEN {"None", "0"} ELSE {"0"}
    /\ \E n \in RowCounts \cup
                (IF split_cls = "RefactModel"
                    THEN {RefactFfDim(split_hparams.n_embd) + d : d \in RowCounts}
                         \cup {2 * RefactFfDim(split_hparams.n_embd)}
                    ELSE {}) :
           data_torch = Rows(n)
    /\ tensors = <<>>
    /\ split_pc = "call"
    /\ split_err = "none"

NextSplit ==
    \/ RefactModifyTensors
    \/ GraniteMoeModifyTensors

SpecSplit == InitSplit /\ [][NextSplit]_vars

\* ------------------------------------------------------------------------
\* Properties of the splitting handlers (under SpecSplit)
\* ------------------------------------------------------------------------

\* the call returned two named parts
SplitInTwo == split_pc = "returned" /\ Len(tensors) = 2

\* C11: when a RefactModel or GraniteMoeModel call returns two named parts,
\* the parts are consecutive row ranges of the input that leave no row out and
\* share no row, and the first part followed by the second is the input tensor.
C11_SplitPartsConcatToInput ==
    SplitInTwo =>
        /\ tensors[1][2] \o tensors[2][2] = data_torch
        /\ Len(tensors[1][2]) + Len(tensors[2][2]) = Len(data_torch)
        /\ tensors[1][1] # tensors[2][1]

\* a well-formed fused tensor was split into two halves that are not empty,
\* by either handler
C11_Witness ==
    /\ SplitInTwo
    /\ Len(tensors[1][2]) > 0
    /\ Len(tensors[2][2]) = Len(tensors[1][2])
    /\ split_name \in {"mlp.gate_up_proj", "shared_mlp.input_linear"}

\* ------------------------------------------------------------------------
\* ModelBase.prepare_tensors: the encoding of one tensor
\* ------------------------------------------------------------------------

\* Canonical names by what lines 290-338 ask of them.
EndsWithWeight(new_name) ==
    new_name \in {"blk.0.attn_output.weight", "blk.0.attn_norm.weight",
                  "blk.0.ffn_gate_inp.weight", "token_embd.weight",
                  "v.patch_embd.weight", "v.position_embd.weight",
                  "v.blk.0.attn_out.weight", "blk.0.time_mix_key.weight",
                  "blk.0.time_mix_lerp_fused.weight", "rope_freqs.weight",
                  "rope_factors_long.weight", "rope_factors_short.weight"}

EndsWithNormWeight(new_name) == new_name \in {"blk.0.attn_norm.weight"}

\* match_model_tensor_name against the keys of lines 298-315 (FFN_GATE_INP,
\* V_ENC_EMBD_POS, ...) and of lines 325-330 (TOKEN_EMBD, ...).
MatchesAlwaysF32Key(new_name) ==
    new_name \in {"blk.0.ffn_gate_inp.weight", "v.position_embd.weight",
                  "blk.0.time_mix_lerp_fused.weight"}

MatchesEmbdKey(new_name) == new_name \in {"token_embd.weight"}

\* tensor_force_quant of the class: "False", "True" or an encoding.
tensor_force_quant(cls, new_name, n_dims) ==
    CASE cls = "DbrxModel" ->
            IF n_dims > 1 THEN "True" ELSE "False"
      [] cls = "InternVisionModel" ->
            IF new_name \in {"v.patch_embd.weight", "v.patch_embd.bias"}
                THEN "F16"
            ELSE IF new_name \in {"v.position_embd.weight"}
                THEN "F32"
            ELSE "False"
      [] OTHER -> "False"

\* Line 290.
RankRuleMutNormOnly(data_qtype, new_name, n_dims) ==
    IF EndsWithNormWeight(new_name) THEN "F32" ELSE data_qtype

RankRule(data_qtype, new_name, n_dims) ==
    IF n_dims <= 1 \/ EndsWithNormWeight(new_name) THEN "F32" ELSE data_qtype

\* Lines 295-320.
AlwaysF32RuleMutNever(data_qtype, new_name) == data_qtype

AlwaysF32Rule(data_qtype, new_name) ==
    IF data_qtype = "False"
       /\ (MatchesAlwaysF32Key(new_name) \/ ~EndsWithWeight(new_name))
        THEN "F32"
        ELSE data_qtype

\* Lines 322-338.
EmbdRule(data_qtype, ft, new_name) ==
    IF data_qtype = "False" /\ MatchesEmbdKey(new_name)
       /\ ft \in {"MOSTLY_TQ1_0", "MOSTLY_TQ2_0"}
        THEN "F16"
        ELSE data_qtype

\* Lines 341-355: the output type decides for "False" and "True".
FtypeMapMutNoBF16(ft) ==
    CASE ft = "ALL_F32"      -> "F32"
      [] ft = "MOSTLY_F16"   -> "F16"
      [] ft = "MOSTLY_BF16"  -> "F16"
      [] ft = "MOSTLY_Q8_0"  -> "Q8_0"
      [] ft = "MOSTLY_TQ1_0" -> "TQ1_0"
      [] ft = "MOSTLY_TQ2_0" -> "TQ2_0"
      [] OTHER               -> "ValueError"

FtypeMap(ft) ==
    CASE ft = "ALL_F32"      -> "F32"
      [] ft = "MOSTLY_F16"   -> "F16"
      [] ft = "MOSTLY_BF16"  -> "BF16"
      [] ft = "MOSTLY_Q8_0"  -> "Q8_0"
      [] ft = "MOSTLY_TQ1_0" -> "TQ1_0"
      [] ft = "MOSTLY_TQ2_0" -> "TQ2_0"
      [] OTHER               -> "ValueError"

FtypeRuleMutAlways(data_qtype, ft) == FtypeMap(ft)

FtypeRule(data_qtype, ft) ==
    IF data_qtype \in {"False", "True"} THEN FtypeMap(ft) ELSE data_qtype

\* Lines 287-355 in their order.
SelectEncoding(cls, ft, new_name, n_dims) ==
    FtypeRule(
        EmbdRule(
            AlwaysF32Rule(
                RankRule(tensor_force_quant(cls, new_name, n_dims),
                         new_name, n_dims),
                new_name),
            ft, new_name),
        ft)

\* gguf.quants.quantize: a block encoding needs rows of whole blocks and
\* raises QuantError otherwise; F32, F16 and BF16 take any shape.
BlockEncodings == {"Q8_0", "TQ1_0", "TQ2_0"}

QuantError(shape, data_qtype) ==
    data_qtype \in BlockEncodings /\ ~shape.aligned

\* Lines 357-362: the encoding the tensor is stored in, and the warning.
QuantizeMutKeepEncoding(shape, data_qtype) ==
    [raw_dtype |-> data_qtype, warned |-> QuantError(shape, data_qtype)]

Quantize(shape, data_qtype) ==
    IF QuantError(shape, data_qtype)
        THEN [raw_dtype |-> "F16", warned |-> TRUE]
        ELSE [raw_dtype |-> data_qtype, warned |-> FALSE]

\* ------------------------------------------------------------------------
\* ModelBase.write
\* ------------------------------------------------------------------------

\* Lines 409-415: the calls of write() in their order.
WriteOrderMutHeaderFirst ==
    <<"write_header_to_file", "prepare_tensors", "prepare_metadata",
      "write_kv_data_to_file", "write_tensors_to_file", "close">>

WriteOrder ==
    <<"prepare_tensors", "prepare_metadata", "write_header_to_file",
      "write_kv_data_to_file", "write_tensors_to_file", "close">>

\* the call after the one that returned
After(call) ==
    LET i == CHOOSE k \in DOMAIN WriteOrder : WriteOrder[k] = call
    IN  IF i = Len(WriteOrder) THEN "done" ELSE WriteOrder[i + 1]

CallReturns ==
    /\ wpc' = After(wpc)
    /\ calls' = Append(calls, wpc)
    /\ werr' = werr

CallRaises(e) ==
    /\ wpc' = "error"
    /\ werr' = e
    /\ calls' = calls

\* One round of the loop of prepare_tensors (lines 259-372): modify_tensors
\* maps the raw tensor to new_name (or map_tensor_name raises), the encoding
\* is selected, the data quantized and the tensor added to the writer.
PrepareTensorsLoop(mapped, new_name, shape) ==
    /\ wpc = "prepare_tensors"
    /\ Len(writer) < MaxTensors
    /\ LET data_qtype == SelectEncoding(model_cls, ftype, new_name, shape.n_dims)
           q == Quantize(shape, data_qtype)
       IN  IF ~mapped
               THEN /\ CallRaises("ValueError: Can not map tensor")
                    /\ UNCHANGED <<writer, warnings>>
           ELSE IF data_qtype = "ValueError"
               THEN /\ CallRaises("ValueError: Unknown file type")
                    /\ UNCHANGED <<writer, warnings>>
           ELSE /\ writer' = Append(writer, <<new_name, q.raw_dtype, shape>>)
                /\ warnings' = warnings + (IF q.warned THEN 1 ELSE 0)
                /\ UNCHANGED <<wpc, werr, calls>>
    /\ UNCHANGED <<model_cls, ftype, model_names, source_end, out_file>>
    /\ UNCHANGED nonprepvars

\* The stream ends: get_tensors raises its mismatch (lines 198-209), or the
\* handler finds experts left in its buffer (LlamaModel.prepare_tensors), or
\* prepare_tensors returns.
PrepareTensorsEnd ==
    /\ wpc = "prepare_tensors"
    /\ CASE source_end = "mismatch" ->
                CallRaises("ValueError: Mismatch between weight map and model parts")
         [] source_end = "experts" ->
                CallRaises("ValueError: Unprocessed experts")
         [] OTHER -> CallReturns
    /\ UNCHANGED <<model_cls, ftype, model_names, source_end, writer, warnings,
                   out_file>>
    /\ UNCHANGED nonprepvars

\* prepare_metadata(vocab_only=False) returns or raises.
PrepareMetadata(ok) ==
    /\ wpc = "prepare_metadata"
    /\ IF ok THEN CallReturns ELSE CallRaises("metadata")
    /\ UNCHANGED <<model_cls, ftype, model_names, source_end, writer, warnings,
                   out_file>>
    /\ UNCHANGED nonprepvars

\* The calls on the writer: write_header_to_file opens the output file.
WriterCall(call, before, after) ==
    /\ wpc = call
    /\ out_file = before
    /\ out_file' = after
    /\ CallReturns
    /\ UNCHANGED <<model_cls, ftype, model_names, source_end, writer, warnings>>
    /\ UNCHANGED nonprepvars

WriteHeaderToFile == WriterCall("write_header_to_file", "none", "header")
WriteKvDataToFile == WriterCall("write_kv_data_to_file", "header", "kv")
WriteTensorsToFile == WriterCall("write_tensors_to_file", "kv", "tensors")
Close == WriterCall("close", "tensors", "closed")

Ftypes == {"ALL_F32", "MOSTLY_F16", "MOSTLY_BF16", "MOSTLY_Q8_0",
           "MOSTLY_TQ1_0", "MOSTLY_TQ2_0"}

\* the canonical names the tensors of a class map to
ModelNames(cls) ==
    CASE cls = "LlamaModel" ->
            {"blk.0.attn_output.weight", "blk.0.attn_output.bias",
             "blk.0.attn_norm.weight", "blk.0.ffn_gate_inp.weight",
             "token_embd.weight"}
      [] cls = "DbrxModel" ->
            {"blk.0.attn_output.weight", "blk.0.attn_norm.weight",
             "blk.0.ffn_gate_inp.weight", "token_embd.weight"}
      [] cls = "InternVisionModel" ->
            {"v.patch_embd.weight", "v.patch_embd.bias",
             "v.position_embd.weight", "v.blk.0.attn_out.weight"}

\* shapes: the number of dimensions, and whether the rows are whole blocks
Shapes ==
    {sh \in [n_dims : 0..MaxRank, aligned : BOOLEAN] :
        sh.n_dims = 0 => sh.aligned}

PrepareStart ==
    /\ writer = <<>>
    /\ warnings = 0
    /\ wpc = WriteOrder[1]
    /\ werr = "none"
    /\ out_file = "none"
    /\ calls = <<>>

\* The tensor pass of any class and output type over a well-formed source.
InitPrepare ==
    /\ IdleArch
    /\ IdleCtor
    /\ IdleHandler
    /\ IdleExtra
    /\ IdleSelect
    /\ IdleBid
    /\ IdlePlan
    /\ IdleModify
    /\ IdleRuns
    /\ IdleFormat
    /\ IdleMain
    /\ IdleSource
    /\ IdleExperts
    /\ IdleSplit
    /\ model_cls \in {"LlamaModel", "DbrxModel", "InternVisionModel"}
    /\ ftype \in Ftypes
    /\ model_names = ModelNames(model_cls)
    /\ source_end = "ok"
    /\ PrepareStart

NextPrepare ==
    \/ \E mapped \in BOOLEAN, new_name \in model_names, shape \in Shapes :
           PrepareTensorsLoop(mapped, new_name, shape)
    \/ PrepareTensorsEnd

SpecPrepare == InitPrepare /\ [][NextPrepare]_vars

\* write() of a model with few tensors, over any source.
InitWrite ==
    /\ IdleArch
    /\ IdleCtor
    /\ IdleHandler
    /\ IdleExtra
    /\ IdleSelect
    /\ IdleBid
    /\ IdlePlan
    /\ IdleModify
    /\ IdleRuns
    /\ IdleFormat
    /\ IdleMain
    /\ IdleSource
    /\ IdleExperts
    /\ IdleSplit
    /\ model_cls \in {"LlamaModel", "DbrxModel"}
    /\ ftype \in {"MOSTLY_F16", "MOSTLY_Q8_0"}
    /\ model_names \in {{"blk.0.attn_output.weight"}, {"token_embd.weight"}}
    /\ source_end \in IF model_cls = "LlamaModel"
                         THEN {"ok", "mismatch", "experts"}
                         ELSE {"ok", "mismatch"}
    /\ PrepareStart

NextWrite ==
    \/ \E mapped \in BOOLEAN, new_name \in model_names, shape \in Shapes :
           PrepareTensorsLoop(mapped, new_name, shape)
    \/ PrepareTensorsEnd
    \/ \E ok \in BOOLEAN : PrepareMetadata(ok)
    \/ WriteHeaderToFile
    \/ WriteKvDataToFile
    \/ WriteTensorsToFile
    \/ Close

SpecWrite == InitWrite /\ [][NextWrite]_vars

\* ------------------------------------------------------------------------
\* Properties of the encoding selection (under SpecPrepare)
\* ------------------------------------------------------------------------

Added == DOMAIN writer
NameOf(i) == writer[i][1]
RawDtype(i) == writer[i][2]
ShapeOf(i) == writer[i][3]
\* what tensor_force_quant returned for the i-th tensor added, and the
\* encoding resolved for it before the quantize step
ForceQuant(i) == tensor_force_quant(model_cls, NameOf(i), ShapeOf(i).n_dims)
Resolved(i) == SelectEncoding(model_cls, ftype, NameOf(i), ShapeOf(i).n_dims)
InAlwaysF32Set(i) ==
    MatchesAlwaysF32Key(NameOf(i)) \/ ~EndsWithWeight(NameOf(i))

\* C12: every tensor added to the writer with at most one dimension was
\* resolved to F32 before the quantize step and is stored as F32, whatever the
\* output type and whatever tensor_force_quant returned; it is never stored
\* as Q8_0, TQ1_0 or TQ2_0.
C12_RankOneIsF32 ==
    \A i \in Added :
        ShapeOf(i).n_dims <= 1 =>
            /\ Resolved(i) = "F32"
            /\ RawDtype(i) = "F32"
            /\ RawDtype(i) \notin BlockEncodings

\* a vector whose rows are no whole blocks, for which the handler asked for
\* F16, converted with a quantized output type
C12_Witness ==
    \E i \in Added :
        /\ ShapeOf(i).n_dims = 1
        /\ ~ShapeOf(i).aligned
        /\ ForceQuant(i) = "F16"
        /\ ftype = "MOSTLY_Q8_0"

C14_Original ==
    \A i \in Added :
        ForceQuant(i) \notin {"False", "True"} => RawDtype(i) = ForceQuant(i)

\* C14 amended: the rule for at most one dimension and for names ending in
\* "_norm.weight" is applied after tensor_force_quant and replaces what it
\* returned by F32; for every other tensor a concrete encoding returned by
\* tensor_force_quant is the one selected, ahead of the always-full-precision
\* set and of the output-type mapping.
C14_ForcedEncodingAfterRankRule ==
    \A i \in Added :
        ForceQuant(i) \notin {"False", "True"} =>
            /\ Resolved(i) =
                   IF ShapeOf(i).n_dims <= 1 \/ EndsWithNormWeight(NameOf(i))
                       THEN "F32"
                       ELSE ForceQuant(i)
            /\ RawDtype(i) = Resolved(i)

\* a matrix for which the handler asked for F16, converted with output type
\* Q8_0 and stored as F16
C14_Witness ==
    \E i \in Added :
        /\ ForceQuant(i) = "F16"
        /\ ShapeOf(i).n_dims = 2
        /\ ftype = "MOSTLY_Q8_0"
        /\ RawDtype(i) = "F16"

\* the tensors whose quantization to the resolved encoding raised QuantError
Failed == {i \in Added : QuantError(ShapeOf(i), Resolved(i))}

\* C15: a tensor whose quantization to its resolved encoding fails with
\* QuantError is added to the writer as F16 with one warning logged, the pass
\* goes on (the failure is no error of the run), and every other tensor keeps
\* the encoding resolved for it.
C15_QuantErrorFallsBackToF16 ==
    /\ \A i \in Failed : RawDtype(i) = "F16"
    /\ \A i \in Added \ Failed : RawDtype(i) = Resolved(i)
    /\ warnings = Cardinality(Failed)
    /\ Failed # {} =>
           werr \in {"none", "ValueError: Can not map tensor"}
    /\ (Failed # {} /\ werr = "none") => wpc \in {"prepare_tensors", "prepare_metadata"}

\* a failed quantization followed by a tensor stored in the quantized
\* encoding resolved for it
C15_Witness ==
    /\ Len(writer) >= 2
    /\ 1 \in Failed
    /\ RawDtype(1) = "F16"
    /\ 2 \notin Failed
    /\ RawDtype(2) \in BlockEncodings
    /\ warnings = 1

\* ------------------------------------------------------------------------
\* Properties of write() (under SpecWrite)
\* ------------------------------------------------------------------------

TensorPassErrors ==
    {"ValueError: Mismatch between weight map and model parts",
     "ValueError: Can not map tensor",
     "ValueError: Unprocessed experts",
     "ValueError: Unknown file type"}

\* C16: when write() ends with an error of the tensor pass, the output file
\* was never opened and write_header_to_file was not called; the header, the
\* key/value data and the tensor data are written in that order and only
\* after prepare_tensors and then prepare_metadata returned.
C16_TensorPassErrorsBeforeOutput ==
    /\ (wpc = "error" /\ werr \in TensorPassErrors) =>
           /\ out_file = "none"
           /\ calls = <<>>
    /\ out_file # "none" =>
           /\ Len(calls) >= 3
           /\ calls[1] = "prepare_tensors"
           /\ calls[2] = "prepare_metadata"
           /\ calls[3] = "write_header_to_file"
    /\ out_file \in {"kv", "tensors", "closed"} =>
           (Len(calls) >= 4 /\ calls[4] = "write_kv_data_to_file")
    /\ out_file \in {"tensors", "closed"} =>
           (Len(calls) >= 5 /\ calls[5] = "write_tensors_to_file")

\* the tensor pass added a tensor to the writer and then found experts left
\* in the buffer
C16_Witness ==
    /\ wpc = "error"
    /\ werr = "ValueError: Unprocessed experts"
    /\ Len(writer) >= 1
    /\ out_file = "none"

\* ------------------------------------------------------------------------
\* ModelBase.register, ModelBase.from_model_architecture and main
\* ------------------------------------------------------------------------

ModelTypes == {"TEXT", "MMPROJ"}

\* Registered class declarations in the order of the file (lines 1896-1904,
\* 2084-2088, 2186-2188, 2229-2230, 2252-2253), with the names of
\* @ModelBase.register and the model_arch of the class.
Decls ==
    << [cls |-> "LlamaModel", model_arch |-> "LLAMA",
        names |-> {"LlamaForCausalLM", "LlavaForConditionalGeneration"}],
       [cls |-> "LlavaVisionModel", model_arch |-> "MMPROJ",
        names |-> {"LlavaForConditionalGeneration",
                   "Mistral3ForConditionalGeneration"}],
       [cls |-> "Llama4Model", model_arch |-> "LLAMA4",
        names |-> {"Llama4ForConditionalGeneration"}],
       [cls |-> "Llama4VisionModel", model_arch |-> "MMPROJ",
        names |-> {"Llama4ForConditionalGeneration"}],
       [cls |-> "Mistral3Model", model_arch |-> "LLAMA",
        names |-> {"Mistral3ForConditionalGeneration"}] >>

\* Line 452: the registry a class is filed in.
RegisterTypeMutAllText(modelcls) == "TEXT"

RegisterType(modelcls) ==
    IF modelcls.model_arch = "MMPROJ" THEN "MMPROJ" ELSE "TEXT"

\* Lines 447-456: the decorator of the next class declaration runs.
Register ==
    /\ mpc = "import"
    /\ decl_i <= Len(Decls)
    /\ LET modelcls   == Decls[decl_i]
           model_type == RegisterType(modelcls)
           old        == model_classes[model_type]
       IN  model_classes' =
               [model_classes EXCEPT ![model_type] =
                   [name \in DOMAIN old \cup modelcls.names |->
                       IF name \in modelcls.names THEN modelcls.cls
                                                  ELSE old[name]]]
    /\ decl_i' = decl_i + 1
    /\ mpc' = IF decl_i = Len(Decls) THEN "main" ELSE "import"
    /\ UNCHANGED <<model_architecture, mmproj, vocab_only, model_class,
                   exit_status, events>>
    /\ UNCHANGED nonmainvars

\* Lines 465-470.
FromModelArchitectureMutAnyType(arch, model_type) ==
    IF \E t \in ModelTypes : arch \in DOMAIN model_classes[t]
        THEN LET t == CHOOSE t \in ModelTypes : arch \in DOMAIN model_classes[t]
             IN  model_classes[t][arch]
        ELSE "NotImplementedError"

from_model_architecture(arch, model_type) ==
    IF arch \in DOMAIN model_classes[model_type]
        THEN model_classes[model_type][arch]
        ELSE "NotImplementedError"

\* Lines 7848-7855: the model type of the request and the lookup.
MainResolve ==
    /\ mpc = "main"
    /\ LET model_type == IF mmproj THEN "MMPROJ" ELSE "TEXT"
           found      == from_model_architecture(model_architecture, model_type)
       IN  IF found = "NotImplementedError"
               THEN /\ events' = Append(events, "logger.error: not supported")
                    /\ exit_status' = 1
                    /\ mpc' = "exit"
                    /\ model_class' = model_class
               ELSE /\ model_class' = found
                    /\ mpc' = "resolved"
                    /\ UNCHANGED <<events, exit_status>>
    /\ UNCHANGED <<model_classes, decl_i, model_architecture, mmproj, vocab_only>>
    /\ UNCHANGED nonmainvars

\* Lines 7857-7864: the model instance is constructed.
MainConstruct ==
    /\ mpc = "resolved"
    /\ events' = Append(events, "construct " \o model_class)
    /\ mpc' = "constructed"
    /\ UNCHANGED <<model_classes, decl_i, model_architecture, mmproj, vocab_only,
                   model_class, exit_status>>
    /\ UNCHANGED nonmainvars

\* Lines 7866-7874: write_vocab() writes the output; write() reads the shard
\* files and writes the output.
MainExport ==
    /\ mpc = "constructed"
    /\ events' = IF vocab_only
                    THEN Append(events, "write output")
                    ELSE events \o <<"open shard", "write output">>
    /\ mpc' = "exported"
    /\ UNCHANGED <<model_classes, decl_i, model_architecture, mmproj, vocab_only,
                   model_class, exit_status>>
    /\ UNCHANGED nonmainvars

\* architecture identifiers a configuration may hold
ArchStrings ==
    {"LlamaForCausalLM", "LlavaForConditionalGeneration",
     "Llama4ForConditionalGeneration", "Mistral3ForConditionalGeneration",
     "llamaforcausallm", "Llama4", "GPT2LMHeadModel"}

\* The interpreter starts to import the script; the request is any
\* architecture identifier with any model type.
InitMain ==
    /\ IdleArch
    /\ IdleCtor
    /\ IdleHandler
    /\ IdleExtra
    /\ IdleSelect
    /\ IdleBid
    /\ IdlePlan
    /\ IdleModify
    /\ IdleRuns
    /\ IdleFormat
    /\ IdleSource
    /\ IdleExperts
    /\ IdleSplit
    /\ IdlePrepare
    /\ model_classes = [t \in ModelTypes |-> <<>>]
    /\ decl_i = 1
    /\ model_architecture \in ArchStrings
    /\ mmproj \in BOOLEAN
    /\ vocab_only \in BOOLEAN
    /\ model_class = "none"
    /\ mpc = "import"
    /\ exit_status = "none"
    /\ events = <<>>

NextMain ==
    \/ Register
    \/ MainResolve
    \/ MainConstruct
    \/ MainExport

SpecMain == InitMain /\ [][NextMain]_vars

\* ------------------------------------------------------------------------
\* Properties of the registry and of main (under SpecMain)
\* ------------------------------------------------------------------------

Imported == mpc # "import"
RequestedType == IF mmproj THEN "MMPROJ" ELSE "TEXT"
\* the declarations that register the name and whose class has, or has not,
\* model_arch MMPROJ
DeclsOf(arch, model_type) ==
    {i \in DOMAIN Decls :
        /\ arch \in Decls[i].names
        /\ (Decls[i].model_arch = "MMPROJ") <=> (model_type = "MMPROJ")}
Happened(ev) == \E i \in DOMAIN events : events[i] = ev

\* C17: when the architecture identifier is not registered for the requested
\* model type, main constructs no model instance, opens no shard file and
\* writes no output; it logs the failure and exits with status 1, and nothing
\* else happens.
C17_UnsupportedExitsBeforeWork ==
    (Imported /\ DeclsOf(model_architecture, RequestedType) = {}) =>
        /\ model_class = "none"
        /\ mpc \in {"main", "exit"}
        /\ \A i \in DOMAIN events : events[i] = "logger.error: not supported"
        /\ mpc = "exit" =>
               /\ exit_status = 1
               /\ events = <<"logger.error: not supported">>

\* an identifier registered for TEXT only, requested with --mmproj
C17_Witness ==
    /\ mpc = "exit"
    /\ exit_status = 1
    /\ mmproj
    /\ model_architecture = "LlamaForCausalLM"
    /\ DeclsOf(model_architecture, "TEXT") # {}

\* C18: after import, from_model_architecture(arch, model_type) is the class
\* of the declaration that registers exactly arch and belongs to model_type,
\* and NotImplementedError for every other string; an identifier registered
\* for both types resolves to different classes; a class is filed under MMPROJ
\* iff its model_arch is MMPROJ; main resolves the class accordingly.
C18_RegistryLookup ==
    Imported =>
        /\ \A arch \in ArchStrings, t \in ModelTypes :
               IF DeclsOf(arch, t) = {}
                   THEN from_model_architecture(arch, t) = "NotImplementedError"
                   ELSE \E i \in DeclsOf(arch, t) :
                            /\ from_model_architecture(arch, t) = Decls[i].cls
                            /\ \A j \in DeclsOf(arch, t) : j = i
        /\ from_model_architecture("Llama4ForConditionalGeneration", "TEXT")
               = "Llama4Model"
        /\ from_model_architecture("Llama4ForConditionalGeneration", "MMPROJ")
               = "Llama4VisionModel"
        /\ \A i \in DOMAIN Decls : \A name \in Decls[i].names :
               (/\ name \in DOMAIN model_classes["MMPROJ"]
                /\ model_classes["MMPROJ"][name] = Decls[i].cls)
                   <=> Decls[i].model_arch = "MMPROJ"
        /\ model_class # "none" =>
               model_class = from_model_architecture(model_architecture, RequestedType)

\* main resolved the identifier registered for both types to the vision class
C18_Witness ==
    /\ mpc = "exported"
    /\ mmproj
    /\ model_architecture = "Llama4ForConditionalGeneration"
    /\ model_class = "Llama4VisionModel"

\* ------------------------------------------------------------------------
\* ModelBase.format_tensor_name
\* ------------------------------------------------------------------------

\* gguf.MODEL_TENSORS: the tensors of an architecture.
MODEL_TENSORS(arch) ==
    CASE arch = "LLAMA"  -> {"TOKEN_EMBD", "ATTN_Q", "FFN_GATE_EXP"}
      [] arch = "REFACT" -> {"TOKEN_EMBD", "ATTN_Q"}
      [] arch = "MMPROJ" -> {"V_ENC_EMBD_POS", "V_ENC_ATTN_Q"}

\* gguf.TENSOR_NAMES: the template of a key, cut at the placeholder.
TENSOR_NAMES(key) ==
    CASE key = "TOKEN_EMBD"     -> <<"token_embd">>
      [] key = "ATTN_Q"         -> <<"blk.", "{bid}", ".attn_q">>
      [] key = "FFN_GATE_EXP"   -> <<"blk.", "{bid}", ".ffn_gate_exps">>
      [] key = "V_ENC_EMBD_POS" -> <<"v.position_embd">>
      [] key = "V_ENC_ATTN_Q"   -> <<"v.blk.", "{bid}", ".attn_q">>

\* "{bid}" in name, and name.format(bid=bid)
HasPlaceholder(name) == \E i \in DOMAIN name : name[i] = "{bid}"

Format(name, bid) ==
    [i \in DOMAIN name |-> IF name[i] = "{bid}" THEN ToString(bid) ELSE name[i]]

\* Lines 211-218.
FormatTensorNameMutNoArchCheck(arch, key, bid, suffix) ==
    LET name == TENSOR_NAMES(key)
    IN  IF HasPlaceholder(name)
            THEN IF bid = <<>>
                    THEN [err |-> "AssertionError", name |-> <<>>]
                    ELSE [err |-> "none",
                          name |-> Append(Format(name, bid[1]), suffix)]
            ELSE [err |-> "none", name |-> Append(name, suffix)]

format_tensor_name(arch, key, bid, suffix) ==
    IF key \notin MODEL_TENSORS(arch)
        THEN [err |-> "ValueError", name |-> <<>>]
        ELSE LET name == TENSOR_NAMES(key)
             IN  IF HasPlaceholder(name)
                     THEN IF bid = <<>>
                             THEN [err |-> "AssertionError", name |-> <<>>]
                             ELSE [err |-> "none",
                                   name |-> Append(Format(name, bid[1]), suffix)]
                     ELSE [err |-> "none", name |-> Append(name, suffix)]

FormatTensorName ==
    /\ fmt_ret = <<>>
    /\ fmt_ret' = format_tensor_name(fmt_arch, fmt_key, fmt_bid, fmt_suffix)
    /\ UNCHANGED <<fmt_arch, fmt_key, fmt_bid, fmt_suffix>>
    /\ UNCHANGED nonfmtvars

TensorKeys == {"TOKEN_EMBD", "ATTN_Q", "FFN_GATE_EXP", "V_ENC_EMBD_POS",
               "V_ENC_ATTN_Q"}

\* A call with any key, any block index or None, and any suffix.
InitFormat ==
    /\ IdleArch
    /\ IdleCtor
    /\ IdleHandler
    /\ IdleExtra
    /\ IdleSelect
    /\ IdleBid
    /\ IdlePlan
    /\ IdleModify
    /\ IdleRuns
    /\ IdleSource
    /\ IdleExperts
    /\ IdleSplit
    /\ IdlePrepare
    /\ IdleMain
    /\ fmt_arch \in {"LLAMA", "REFACT", "MMPROJ"}
    /\ fmt_key \in TensorKeys
    /\ fmt_bid \in {<<>>} \cup {<<b>> : b \in 0..MaxBid}
    /\ fmt_suffix \in {".weight", ".bias", ""}
    /\ fmt_ret = <<>>

NextFormat == FormatTensorName

SpecFormat == InitFormat /\ [][NextFormat]_vars

\* ------------------------------------------------------------------------
\* Properties of format_tensor_name (under SpecFormat)
\* ------------------------------------------------------------------------

FormatCalled == fmt_ret # <<>>
\* the template with the block index at the place of the placeholder
Substituted ==
    LET t == TENSOR_NAMES(fmt_key)
    IN  IF Len(t) = 1 THEN t ELSE <<t[1], ToString(fmt_bid[1]), t[3]>>

\* C20: format_tensor_name raises ValueError when the key is no tensor of the
\* architecture; otherwise it fails when the template holds the placeholder
\* and bid is None, returns the template with the block index substituted
\* plus the suffix when bid is given, and returns the template plus the
\* suffix, whatever bid is, when the template holds no placeholder.
C20_FormatTensorName ==
    FormatCalled =>
        IF fmt_key \notin MODEL_TENSORS(fmt_arch)
            THEN fmt_ret.err = "ValueError"
        ELSE IF Len(TENSOR_NAMES(fmt_key)) = 1
            THEN /\ fmt_ret.err = "none"
                 /\ fmt_ret.name = TENSOR_NAMES(fmt_key) \o <<fmt_suffix>>
        ELSE IF fmt_bid = <<>>
            THEN fmt_ret.err # "none" /\ fmt_ret.name = <<>>
        ELSE /\ fmt_ret.err = "none"
             /\ fmt_ret.name = Substituted \o <<fmt_suffix>>
             /\ ~HasPlaceholder(fmt_ret.name)

\* a block tensor of the architecture formatted with a block index
C20_Witness ==
    /\ FormatCalled
    /\ fmt_key = "ATTN_Q"
    /\ fmt_arch = "REFACT"
    /\ fmt_bid = <<MaxBid>>
    /\ fmt_ret.name = <<"blk.", ToString(MaxBid), ".attn_q", ".weight">>

\* ------------------------------------------------------------------------
\* Two conversions of one model directory
\* ------------------------------------------------------------------------

\* The raw tensors of the model in the order of the shard files, as the
\* canonical names map_tensor_name gives them.
LerpNames ==
    {"blk.0.time_mix_lerp_w.weight", "blk.0.time_mix_lerp_k.weight",
     "blk.0.time_mix_lerp_v.weight", "blk.0.time_mix_lerp_r.weight",
     "blk.0.time_mix_lerp_g.weight"}

ModelTensors(cls) ==
    IF cls = "Rwkv6Model"
        THEN <<"blk.0.time_mix_key.weight", "blk.0.time_mix_lerp_w.weight",
               "blk.0.time_mix_lerp_k.weight", "blk.0.time_mix_lerp_v.weight",
               "blk.0.time_mix_lerp_r.weight", "blk.0.time_mix_lerp_g.weight">>
        ELSE <<"token_embd.weight", "blk.0.attn_norm.weight",
               "blk.0.attn_output.weight">>

\* Lines 417-426: get_model_part_names sorts what os.listdir returned.
SortedParts(filenames) ==
    LET S == {filenames[i] : i \in DOMAIN filenames}
    IN  [i \in 1..Cardinality(S) |->
            CHOOSE f \in S : Cardinality({g \in S : g < f}) = i - 1]

\* get_tensors: the tensors of the shard files in the order of part_names,
\* each file in the order of its keys.
RECURSIVE TensorsOf(_, _, _)
TensorsOf(part_names_, dir, all) ==
    IF part_names_ = <<>>
        THEN <<>>
        ELSE SelectSeq([i \in DOMAIN all |-> <<i, all[i]>>],
                       LAMBDA t : dir[t[1]] = Head(part_names_))
             \o TensorsOf(Tail(part_names_), dir, all)

\* Rwkv6Model.modify_tensors, lines 4887-4925, for a tensor of block 0; the
\* other classes return the mapped tensor (lines 242-245). The result is the
\* list of <<new_name, shape>> and the new lerp_weights.
RunModifyTensors(cls, lerp, new_name) ==
    IF cls = "Rwkv6Model" /\ new_name \in LerpNames
        THEN LET stored == lerp \cup {new_name}
             IN  [lerp |-> stored,
                  out  |-> IF LerpNames \subseteq stored
                              THEN << <<"blk.0.time_mix_lerp_fused.weight",
                                        [n_dims |-> 4, aligned |-> TRUE]>> >>
                              ELSE <<>>]
        ELSE [lerp |-> lerp,
              out  |-> << <<new_name, [n_dims |-> 2, aligned |-> TRUE]>> >>]

\* A run starts: a new interpreter process has the class attribute as the
\* class statement left it; the instance lists the directory, in whatever
\* order the system returns the files, and sorts the shard files.
StartRun(filenames) ==
    /\ rpc = "start"
    /\ listing' = filenames
    /\ queue' = TensorsOf(SortedParts(filenames), shard_of, ModelTensors(run_cls))
    /\ lerp_weights' = IF run = 1 \/ ~same_process THEN {} ELSE lerp_weights
    /\ rpc' = "pass"
    /\ UNCHANGED <<run_cls, run_ftype, same_process, shard_of, run, passed>>
    /\ UNCHANGED nonrunvars

\* One round of the loop of prepare_tensors.
PassTensor ==
    /\ rpc = "pass"
    /\ queue # <<>>
    /\ LET m == RunModifyTensors(run_cls, lerp_weights, Head(queue)[2])
       IN  /\ lerp_weights' = m.lerp
           /\ passed' =
                [passed EXCEPT ![run] = @ \o
                    [i \in DOMAIN m.out |->
                        <<m.out[i][1],
                          Quantize(m.out[i][2],
                                   SelectEncoding(run_cls, run_ftype, m.out[i][1],
                                                  m.out[i][2].n_dims)).raw_dtype,
                          m.out[i][2]>>]]
    /\ queue' = Tail(queue)
    /\ UNCHANGED <<run_cls, run_ftype, same_process, shard_of, listing, run, rpc>>
    /\ UNCHANGED nonrunvars

\* The tensor pass ends; the second run follows the first.
EndRun ==
    /\ rpc = "pass"
    /\ queue = <<>>
    /\ rpc' = IF run = 1 THEN "start" ELSE "done"
    /\ run' = IF run = 1 THEN 2 ELSE run
    /\ UNCHANGED <<run_cls, run_ftype, same_process, shard_of, listing, queue,
                   lerp_weights, passed>>
    /\ UNCHANGED nonrunvars

\* the orders in which os.listdir may return the shard files
Listings ==
    {l \in [Files -> Files] : \A f \in Files : \E i \in Files : l[i] = f}

\* One directory, one class and one output type for both runs; the tensors
\* lie in the shard files in their order.
InitRuns ==
    /\ IdleArch
    /\ IdleCtor
    /\ IdleHandler
    /\ IdleExtra
    /\ IdleSelect
    /\ IdleBid
    /\ IdlePlan
    /\ IdleModify
    /\ IdleSource
    /\ IdleExperts
    /\ IdleSplit
    /\ IdlePrepare
    /\ IdleMain
    /\ IdleFormat
    /\ run_cls \in {"LlamaModel", "Rwkv6Model"}
    /\ run_ftype \in {"MOSTLY_F16", "MOSTLY_Q8_0"}
    /\ same_process \in BOOLEAN
    /\ shard_of \in {d \in [DOMAIN ModelTensors(run_cls) -> Files] :
                        \A i, j \in DOMAIN d : i <= j => d[i] <= d[j]}
    /\ listing = <<>>
    /\ run = 1
    /\ rpc = "start"
    /\ queue = <<>>
    /\ lerp_weights = {}
    /\ passed = [r \in 1..2 |-> <<>>]

NextRuns ==
    \/ \E filenames \in Listings : StartRun(filenames)
    \/ PassTensor
    \/ EndRun

SpecRuns == InitRuns /\ [][NextRuns]_vars

\* ------------------------------------------------------------------------
\* Properties of two conversions (under SpecRuns)
\* ------------------------------------------------------------------------

\* C19: two runs over the same directory with the same options pass the same
\* sequence of (canonical name, encoding, shape) to the writer, whatever order
\* the directory is listed in and whatever the first run left behind.
C19_RunsPassSameSequence ==
    rpc = "done" => passed[1] = passed[2]

\* ------------------------------------------------------------------------
\* modify_tensors and the tensor it is given
\* ------------------------------------------------------------------------

\* the largest rescale_every of the configuration
MaxRescale == 2

\* The value of a tensor: its dtype and the operations applied to the data
\* read from the shard, in order, each as <<operation, argument>>.
FreshTensor(dtype) == [dtype |-> dtype, ops |-> <<>>]

Applied(v, op) == [v EXCEPT !.ops = Append(@, op)]

\* An operation that returns a new tensor (transpose, squeeze, exp, ...):
\* the heap gets a new object, its argument stays as it is.
OutOfPlace(h, id, op) ==
    [heap |-> Append(h, Applied(h[id], op)), id |-> Len(h) + 1]

\* Lines 7656-7666: an operation on a LazyTorchTensor is wrapped and gives a
\* new lazy value, the in-place operations included.
LazyWrap(h, id, op) == OutOfPlace(h, id, op)

InPlaceMutCopies(h, id, op, is_eager) == OutOfPlace(h, id, op)

\* An in-place operation of torch (div_, +=, /=) on data_torch: on an eager
\* tensor the object itself gets the new value and is the result.
InPlace(h, id, op, is_eager) ==
    IF is_eager
        THEN [heap |-> [h EXCEPT ![id] = Applied(@, op)], id |-> id]
        ELSE LazyWrap(h, id, op)

\* Tensor.float(): the tensor itself when it is float32 already, else a
\* float32 copy.
Float(h, id) ==
    IF h[id].dtype = "F32"
        THEN [heap |-> h, id |-> id]
        ELSE [heap |-> Append(h, [h[id] EXCEPT !.dtype = "F32"]),
              id |-> Len(h) + 1]

RECURSIVE Pow2(_)
Pow2(k) == IF k = 0 THEN 1 ELSE 2 * Pow2(k - 1)

ModifyReturns(r, new_name) ==
    /\ mod_pc = "call"
    /\ heap' = r.heap
    /\ mod_ret' = << <<new_name, r.id>> >>
    /\ mod_pc' = "returned"
    /\ UNCHANGED <<mod_cls, eager, mod_hparams, mod_name, mod_bid>>
    /\ UNCHANGED nonmodvars

\* Lines 242-245: the base class returns the tensor it was given.
BaseModifyTensors ==
    /\ mod_cls = "ModelBase"
    /\ ModifyReturns([heap |-> heap, id |-> 1], mod_name)

\* Lines 4887-4925, Rwkv6Model, for a tensor that is not one of the
\* time_mix_lerp weights: transpose, then the rescaling of lines 4902-4908,
\* x.div_(2 ** (bid // rescale_every)); a division by 1 leaves the data as
\* they are.
Rwkv6ModifyTensors ==
    /\ mod_cls = "Rwkv6Model"
    /\ LET t == IF mod_name = "time_mix_w1.weight"
                    THEN OutOfPlace(heap, 1, <<"transpose", 0>>)
                    ELSE [heap |-> heap, id |-> 1]
           re == mod_hparams.rescale_every
           d == Pow2(mod_bid[1] \div re[1])
           r == IF /\ re # <<>>
                   /\ re[1] > 0
                   /\ mod_name \in {"time_mix_output.weight",
                                    "channel_mix_value.weight"}
                    THEN IF d = 1
                            THEN t
                            ELSE InPlace(t.heap, t.id, <<"div", d>>, eager)
                    ELSE t
       IN  ModifyReturns(r, mod_name)

\* Lines 7158-7164, BailingMoeModel, for a tensor that is neither a fused
\* query_key_value nor an expert weight: the output head is normalised when
\* hparams has norm_head, x = x.float(); x /= norm(x).
BailingMoeModifyTensors ==
    /\ mod_cls = "BailingMoeModel"
    /\ LET f == Float(heap, 1)
           r == IF mod_name = "output.weight" /\ mod_hparams.norm_head
                    THEN InPlace(f.heap, f.id, <<"div_norm", 0>>, eager)
                    ELSE [heap |-> heap, id |-> 1]
       IN  ModifyReturns(r, mod_name)

\* Lines 3808-3841, Plamo2Model: A_log gives a new tensor, the norm weights
\* get their offset by +=.
Plamo2ModifyTensors ==
    /\ mod_cls = "Plamo2Model"
    /\ LET r == IF mod_name = "A_log"
                    THEN OutOfPlace(heap, 1, <<"neg_exp", 0>>)
                ELSE IF mod_name = "pre_mixer_norm.weight"
                    THEN InPlace(heap, 1, <<"add", 1>>, eager)
                ELSE IF mod_name = "post_mixer_norm.weight"
                    THEN InPlace(heap, 1, <<"add_1_over", 5>>, eager)
                ELSE [heap |-> heap, id |-> 1]
       IN  ModifyReturns(r, mod_name)

\* the tensors each handler is given here
ModifyNames(cls) ==
    IF cls = "Rwkv6Model"
        THEN {"time_mix_output.weight", "channel_mix_value.weight",
              "time_mix_key.weight", "time_mix_w1.weight"}
    ELSE IF cls = "BailingMoeModel"
        THEN {"output.weight", "token_embd.weight"}
    ELSE IF cls = "Plamo2Model"
        THEN {"A_log", "pre_mixer_norm.weight", "post_mixer_norm.weight",
              "attn_q.weight"}
    ELSE {"token_embd.weight", "attn_q.weight"}

\* A handler is about to be called with a tensor prepare_tensors read from
\* the stream: float16 or float32 after lines 267-268.
InitModify ==
    /\ IdleArch
    /\ IdleCtor
    /\ IdleHandler
    /\ IdleExtra
    /\ IdleSelect
    /\ IdleBid
    /\ IdlePlan
    /\ IdleSource
    /\ IdleExperts
    /\ IdleSplit
    /\ IdlePrepare
    /\ IdleMain
    /\ IdleFormat
    /\ IdleRuns
    /\ mod_cls \in {"ModelBase", "Rwkv6Model", "BailingMoeModel", "Plamo2Model"}
    /\ eager \in BOOLEAN
    /\ mod_hparams \in
         [rescale_every : IF mod_cls = "Rwkv6Model"
                              THEN {<<>>} \cup {<<n>> : n \in 0..MaxRescale}
                              ELSE {<<>>},
          norm_head : IF mod_cls = "BailingMoeModel" THEN BOOLEAN ELSE {FALSE}]
    /\ mod_name \in ModifyNames(mod_cls)
    /\ mod_bid \in IF mod_name \in {"token_embd.weight", "output.weight"}
                      THEN {<<>>}
                      ELSE {<<b>> : b \in 0..MaxBid}
    /\ heap \in {<<FreshTensor(d)>> : d \in {"F16", "F32"}}
    /\ mod_ret = <<>>
    /\ mod_pc = "call"

NextModify ==
    \/ BaseModifyTensors
    \/ Rwkv6ModifyTensors
    \/ BailingMoeModifyTensors
    \/ Plamo2ModifyTensors

SpecModify == InitModify /\ [][NextModify]_vars

\* ------------------------------------------------------------------------
\* Properties of modify_tensors and its argument (under SpecModify)
\* ------------------------------------------------------------------------

\* the tensor the caller passed has the value it had at the call
GivenUnchanged == heap[1] = FreshTensor(heap[1].dtype)

\* the cases in which a handler applies an in-place operation to the very
\* object it was given
MutatesGiven ==
    \/ /\ mod_cls = "Rwkv6Model"
       /\ mod_hparams.rescale_every # <<>>
       /\ mod_hparams.rescale_every[1] > 0
       /\ mod_name \in {"time_mix_output.weight", "channel_mix_value.weight"}
       /\ mod_bid[1] >= mod_hparams.rescale_every[1]
    \/ /\ mod_cls = "BailingMoeModel"
       /\ mod_name = "output.weight"
       /\ mod_hparams.norm_head
       /\ heap[1].dtype = "F32"
    \/ /\ mod_cls = "Plamo2Model"
       /\ mod_name \in {"pre_mixer_norm.weight", "post_mixer_norm.weight"}

MaxPerFile == 2
\* the canonical tensors of a conversion
MaxPlanned == 5

\* the tensors of all files of the plan, file after file
RECURSIVE Flatten(_)
Flatten(files) ==
    IF files = <<>> THEN <<>> ELSE Head(files) \o Flatten(Tail(files))

\* Lines 135-137 and 7858-7865: main hands --split-max-tensors,
\* --split-max-size and --no-tensor-first-split to the model, which hands them
\* to the writer. The writer starts with one file, and with an extra first
\* file that holds no tensor when small_first_shard is set.
ConstructWriter ==
    /\ plan_pc = "construct"
    /\ shards' = IF small_first_shard THEN << <<>>, <<>> >> ELSE << <<>> >>
    /\ plan_pc' = "add"
    /\ UNCHANGED <<split_max_tensors, split_max_size, small_first_shard,
                   n_tensors>>
    /\ UNCHANGED nonplanvars

OpensNewFileMutOneLate(last) ==
    split_max_tensors # 0 /\ Len(last) > split_max_tensors

\* The plan is greedy: a new file is opened when the tensor would exceed
\* either budget of the last file (0 = unlimited); each tensor counts as one
\* unit of the byte budget.
OpensNewFile(last) ==
    \/ split_max_tensors # 0 /\ Len(last) >= split_max_tensors
    \/ split_max_size # 0 /\ Len(last) + 1 > split_max_size

\* Line 372: prepare_tensors adds the next canonical tensor to the writer.
AddTensor ==
    /\ plan_pc = "add"
    /\ Len(Flatten(shards)) < n_tensors
    /\ LET t == Len(Flatten(shards)) + 1
           files == IF OpensNewFile(shards[Len(shards)])
                       THEN Append(shards, <<>>)
                       ELSE shards
       IN  shards' = [files EXCEPT ![Len(files)] = Append(@, t)]
    /\ UNCHANGED <<split_max_tensors, split_max_size, small_first_shard,
                   n_tensors, plan_pc>>
    /\ UNCHANGED nonplanvars

\* The tensor pass is over: the plan is what the writer will write.
PlanEnd ==
    /\ plan_pc = "add"
    /\ Len(Flatten(shards)) = n_tensors
    /\ plan_pc' = "planned"
    /\ UNCHANGED <<split_max_tensors, split_max_size, small_first_shard,
                   n_tensors, shards>>
    /\ UNCHANGED nonplanvars

\* The command line is parsed: the limits are natural numbers (lines
\* 7748-7763) and the model has at least one tensor.
InitPlan ==
    /\ IdleArch
    /\ IdleCtor
    /\ IdleHandler
    /\ IdleExtra
    /\ IdleSelect
    /\ IdleBid
    /\ IdleSource
    /\ IdleExperts
    /\ IdleSplit
    /\ IdlePrepare
    /\ IdleMain
    /\ IdleFormat
    /\ IdleRuns
    /\ IdleModify
    /\ split_max_tensors \in 0..MaxPerFile
    /\ split_max_size \in 0..MaxPerFile
    /\ small_first_shard \in BOOLEAN
    /\ n_tensors \in 1..MaxPlanned
    /\ shards = <<>>
    /\ plan_pc = "construct"

NextPlan ==
    \/ ConstructWriter
    \/ AddTensor
    \/ PlanEnd

SpecPlan == InitPlan /\ [][NextPlan]_vars

\* ------------------------------------------------------------------------
\* Properties of the shard plan (under SpecPlan)
\* ------------------------------------------------------------------------

\* ceil(n / k)
CeilDiv(n, k) == (n + k - 1) \div k

\* C22: with a limit of k > 0 tensors per file, no byte limit and no small
\* first shard, n tensors added in insertion order are planned into ceil(n/k)
\* files, each of k tensors except possibly the last; every tensor is in
\* exactly one file and the insertion order is kept within and across files.
C22_TensorLimitPlan ==
    (/\ plan_pc = "planned"
     /\ split_max_tensors > 0
     /\ split_max_size = 0
     /\ ~small_first_shard)
    => /\ Len(shards) = CeilDiv(n_tensors, split_max_tensors)
       /\ \A f \in 1..(Len(shards) - 1) :
             Len(shards[f]) = split_max_tensors
       /\ Len(shards[Len(shards)]) \in 1..split_max_tensors
       /\ Flatten(shards) = [i \in 1..n_tensors |-> i]

\* the scenario of the specification: 5 tensors, 2 per file
C22_Witness ==
    /\ plan_pc = "planned"
    /\ split_max_tensors = 2
    /\ split_max_size = 0
    /\ ~small_first_shard
    /\ n_tensors = 5
    /\ shards = << <<1, 2>>, <<3, 4>>, <<5>> >>

\* ------------------------------------------------------------------------
\* The block index of a raw tensor name
\* ------------------------------------------------------------------------

\* the characters of a raw tensor name
MaxNameLen == 5

Digits == <<"0", "1">>

NameChars == {"w", "."} \cup {Digits[i] : i \in DOMAIN Digits}

\* str.split("."): the pieces between the dots, empty pieces included.
RECURSIVE SplitDots(_, _)
SplitDots(s, piece) ==
    IF s = <<>>
        THEN <<piece>>
    ELSE IF Head(s) = "."
        THEN <<piece>> \o SplitDots(Tail(s), <<>>)
    ELSE SplitDots(Tail(s), Append(piece, Head(s)))

\* str.isdecimal(): at least one character and decimal digits only.
IsDecimal(part) ==
    /\ part # <<>>
    /\ \A i \in DOMAIN part : \E d \in DOMAIN Digits : part[i] = Digits[d]

\* int(part) of a decimal string
RECURSIVE IntOf(_)
IntOf(part) ==
    IF part = <<>>
        THEN 0
        ELSE IntOf(SubSeq(part, 1, Len(part) - 1)) * 10
             + (CHOOSE d \in DOMAIN Digits : part[Len(part)] = Digits[d]) - 1

RECURSIVE BidOfPartsMutLast(_)
BidOfPartsMutLast(parts) ==
    IF parts = <<>>
        THEN <<>>
    ELSE IF IsDecimal(parts[Len(parts)])
        THEN <<IntOf(parts[Len(parts)])>>
    ELSE BidOfPartsMutLast(SubSeq(parts, 1, Len(parts) - 1))

\* Lines 270-275: bid = None; for part in name.split("."): if
\* part.isdecimal(): bid = int(part); break
RECURSIVE BidOfParts(_)
BidOfParts(parts) ==
    IF parts = <<>>
        THEN <<>>
    ELSE IF IsDecimal(Head(parts))
        THEN <<IntOf(Head(parts))>>
    ELSE BidOfParts(Tail(parts))

ParseBid ==
    /\ bid_pc = "name"
    /\ raw_bid' = BidOfParts(SplitDots(raw_name, <<>>))
    /\ bid_pc' = "parsed"
    /\ UNCHANGED raw_name
    /\ UNCHANGED nonbidvars

\* the names of at most n characters
RECURSIVE NamesUpTo(_)
NamesUpTo(n) ==
    IF n = 0
        THEN {<<>>}
        ELSE LET shorter == NamesUpTo(n - 1)
             IN  shorter \cup {Append(s, c) : s \in shorter, c \in NameChars}

InitBid ==
    /\ IdleArch
    /\ IdleCtor
    /\ IdleHandler
    /\ IdleExtra
    /\ IdleSelect
    /\ IdleSource
    /\ IdleExperts
    /\ IdleSplit
    /\ IdlePrepare
    /\ IdleMain
    /\ IdleFormat
    /\ IdleRuns
    /\ IdleModify
    /\ IdlePlan
    /\ raw_name \in NamesUpTo(MaxNameLen)
    /\ raw_bid = <<>>
    /\ bid_pc = "name"

NextBid == ParseBid

SpecBid == InitBid /\ [][NextBid]_vars

\* ------------------------------------------------------------------------
\* Properties of the block index (under SpecBid)
\* ------------------------------------------------------------------------

\* the "."-separated segments of the name, as positions: segment k runs
\* between the (k-1)-th and the k-th dot
DotsAt == {i \in DOMAIN raw_name : raw_name[i] = "."}

SegmentStarts == {1} \cup {i + 1 : i \in DotsAt}

SegmentFrom(a) ==
    LET ends == {i \in DotsAt : i >= a}
        b == IF ends = {} THEN Len(raw_name) + 1
             ELSE CHOOSE i \in ends : \A j \in ends : i <= j
    IN  SubSeq(raw_name, a, b - 1)

NumericStarts == {a \in SegmentStarts : IsDecimal(SegmentFrom(a))}

\* C23: the block index of a raw tensor is the integer value of the first
\* "."-separated segment of its name that consists only of decimal digits,
\* and None when the name has no such segment; later numeric segments never
\* change it.
C23_BidIsFirstNumericSegment ==
    bid_pc = "parsed" =>
        IF NumericStarts = {}
            THEN raw_bid = <<>>
            ELSE LET a == CHOOSE x \in NumericStarts :
                              \A y \in NumericStarts : x <= y
                 IN  raw_bid = <<IntOf(SegmentFrom(a))>>

\* a name with two numeric segments: the block, then another index
C23_Witness ==
    /\ bid_pc = "parsed"
    /\ raw_name = <<"w", ".", "1", ".", "0">>
    /\ raw_bid = <<1>>

\* ------------------------------------------------------------------------
\* The encoding selection as a function of its inputs
\* ------------------------------------------------------------------------

\* the canonical names the selection is applied to
SelectNames ==
    {"blk.0.attn_output.weight", "blk.0.attn_norm.weight",
     "blk.0.ffn_gate_inp.weight", "token_embd.weight", "v.patch_embd.weight",
     "v.position_embd.weight", "v.patch_embd.bias"}

\* Lines 287-355 for one tensor modify_tensors returned.
SelectOne ==
    /\ sel_pc = "tensor"
    /\ sel_qtype' = SelectEncoding(sel_cls, sel_ftype, sel_name, sel_dims)
    /\ sel_pc' = "selected"
    /\ UNCHANGED <<sel_cls, sel_ftype, sel_name, sel_dims>>
    /\ UNCHANGED nonselvars

\* Any class, any member of gguf.LlamaFileType the constructor was given
\* (the six of the command line and one more), any tensor.
InitSelect ==
    /\ IdleArch
    /\ IdleCtor
    /\ IdleHandler
    /\ IdleExtra
    /\ IdleSource
    /\ IdleExperts
    /\ IdleSplit
    /\ IdlePrepare
    /\ IdleMain
    /\ IdleFormat
    /\ IdleRuns
    /\ IdleModify
    /\ IdlePlan
    /\ IdleBid
    /\ sel_cls \in {"LlamaModel", "DbrxModel", "InternVisionModel"}
    /\ sel_ftype \in Ftypes \cup {"MOSTLY_Q4_0"}
    /\ sel_name \in SelectNames
    /\ sel_dims \in 0..MaxRank
    /\ sel_qtype = "False"
    /\ sel_pc = "tensor"

NextSelect == SelectOne

SpecSelect == InitSelect /\ [][NextSelect]_vars

\* ------------------------------------------------------------------------
\* Properties of the encoding selection (under SpecSelect)
\* ------------------------------------------------------------------------

\* the encodings the claim gives for the output types
EncodingOfOutputType ==
    [ft \in Ftypes \cup {"MOSTLY_Q4_0"} |->
        IF ft = "ALL_F32" THEN "F32"
        ELSE IF ft = "MOSTLY_F16" THEN "F16"
        ELSE IF ft = "MOSTLY_BF16" THEN "BF16"
        ELSE IF ft = "MOSTLY_Q8_0" THEN "Q8_0"
        ELSE IF ft = "MOSTLY_TQ1_0" THEN "TQ1_0"
        ELSE IF ft = "MOSTLY_TQ2_0" THEN "TQ2_0"
        ELSE "ValueError"]

\* C24: for a tensor of at least two dimensions whose canonical name ends in
\* ".weight" but not "_norm.weight", that matches none of the always-F32 or
\* ternary-exempt keys, and for which tensor_force_quant returns False or
\* True, the resolved encoding depends on the output type alone: ALL_F32 ->
\* F32, MOSTLY_F16 -> F16, MOSTLY_BF16 -> BF16, MOSTLY_Q8_0 -> Q8_0,
\* MOSTLY_TQ1_0 -> TQ1_0, MOSTLY_TQ2_0 -> TQ2_0, any other raises ValueError.
C24_OutputTypeAloneDecides ==
    (/\ sel_pc = "selected"
     /\ sel_dims >= 2
     /\ EndsWithWeight(sel_name)
     /\ ~EndsWithNormWeight(sel_name)
     /\ ~MatchesAlwaysF32Key(sel_name)
     /\ ~MatchesEmbdKey(sel_name)
     /\ tensor_force_quant(sel_cls, sel_name, sel_dims) \in {"False", "True"})
    => sel_qtype = EncodingOfOutputType[sel_ftype]

\* a plain 2-D weight of a class that forces quantization, stored as BF16
C24_Witness ==
    /\ sel_pc = "selected"
    /\ sel_cls = "DbrxModel"
    /\ sel_name = "blk.0.attn_output.weight"
    /\ sel_dims = 2
    /\ sel_ftype = "MOSTLY_BF16"
    /\ sel_qtype = "BF16"

\* ------------------------------------------------------------------------
\* prepare_tensors: synthetic tensors and the tensors of the shards
\* ------------------------------------------------------------------------

\* raw tensors in the shard files of a conversion with synthetic tensors
MaxRaw == 2

\* Lines 253-254, 2030-2058, 2623-2638: what generate_extra_tensors yields,
\* as <<name, n_dims>>: nothing in the base class, the rope frequencies of
\* LlamaModel with llama3 rope scaling, the long and short rope factors of
\* MiniCPMModel.
generate_extra_tensors(cls, has_rope_scaling) ==
    IF cls = "LlamaModel" /\ has_rope_scaling
        THEN << <<"rope_freqs.weight", 1>> >>
    ELSE IF cls = "MiniCPMModel" /\ has_rope_scaling
        THEN << <<"rope_factors_long.weight", 1>>,
                <<"rope_factors_short.weight", 1>> >>
    ELSE <<>>

\* the raw tensors of the shard files and their ranks
RawRank(name) == IF name = "model.layers.0.self_attn.rotary_emb.inv_freq"
                    THEN 1 ELSE 2

Tagged(origin, s) == [i \in DOMAIN s |-> <<origin, s[i][1], s[i][2]>>]

ChainMutShardsFirst(extra, raw) == Tagged("raw", raw) \o Tagged("extra", extra)

\* Line 259: chain(self.generate_extra_tensors(), self.get_tensors()).
Chain(extra, raw) == Tagged("extra", extra) \o Tagged("raw", raw)

\* Lines 261-262: the names the loop skips.
Skipped(name) == name \in {"model.layers.0.self_attn.rotary_emb.inv_freq"}

\* map_tensor_name of the names of this part; a canonical name maps to
\* itself.
MapName(name) ==
    CASE name = "model.embed_tokens.weight" -> "token_embd.weight"
      [] name = "model.layers.0.self_attn.o_proj.weight" ->
            "blk.0.attn_output.weight"
      [] name = "backbone.embeddings.weight" -> "token_embd.weight"
      [] name = "lm_head.weight" -> "output.weight"
      [] name = "backbone.layers.0.mixer.A_log" -> "blk.0.ssm_a"
      [] name = "shared.weight" -> "token_embd.weight"
      [] name = "encoder.block.0.layer.0.SelfAttention.q.weight" ->
            "enc.blk.0.attn_q.weight"
      [] OTHER -> name

\* prepare_tensors begins: both generators are created, none has run.
ChainStart ==
    /\ ext_pc = "start"
    /\ n_pulled' = n_pulled + 1
    /\ chained' = Chain(generate_extra_tensors(ext_cls, rope_scaling),
                        [i \in DOMAIN shard_tensors |->
                            <<shard_tensors[i], RawRank(shard_tensors[i])>>])
    /\ ext_pc' = "loop"
    /\ UNCHANGED <<ext_cls, ext_ftype, rope_scaling, shard_tensors, gguf_tensors>>
    /\ UNCHANGED nonextvars

\* One round of the loop, lines 259-372, for a tensor from either generator:
\* the skip of lines 261-262, modify_tensors (the renaming of lines 242-245),
\* the encoding selection, add_tensor.
ChainLoop ==
    /\ ext_pc = "loop"
    /\ chained # <<>>
    /\ LET t == Head(chained)
           new_name == MapName(t[2])
       IN  gguf_tensors' =
             IF Skipped(t[2])
                 THEN gguf_tensors
                 ELSE Append(gguf_tensors,
                             <<t[1], t[2], new_name,
                               SelectEncoding(ext_cls, ext_ftype, new_name, t[3])>>)
    /\ chained' = Tail(chained)
    /\ UNCHANGED <<ext_cls, ext_ftype, rope_scaling, shard_tensors, n_pulled,
                   ext_pc>>
    /\ UNCHANGED nonextvars

\* Both generators are exhausted.
ChainEnd ==
    /\ ext_pc = "loop"
    /\ chained = <<>>
    /\ ext_pc' = "done"
    /\ UNCHANGED <<ext_cls, ext_ftype, rope_scaling, shard_tensors, n_pulled,
                   chained, gguf_tensors>>
    /\ UNCHANGED nonextvars

RawTensorNames ==
    {"model.embed_tokens.weight", "model.layers.0.self_attn.o_proj.weight",
     "model.layers.0.self_attn.rotary_emb.inv_freq"}

\* the shard files hold up to MaxRaw tensors of different names
ShardStreams ==
    UNION {{s \in [1..n -> RawTensorNames] :
               \A i, j \in 1..n : i # j => s[i] # s[j]} : n \in 0..MaxRaw}

InitExtra ==
    /\ IdleArch
    /\ IdleCtor
    /\ IdleHandler
    /\ IdleSource
    /\ IdleExperts
    /\ IdleSplit
    /\ IdlePrepare
    /\ IdleMain
    /\ IdleFormat
    /\ IdleRuns
    /\ IdleModify
    /\ IdlePlan
    /\ IdleBid
    /\ IdleSelect
    /\ ext_cls \in {"TextModel", "LlamaModel", "MiniCPMModel"}
    /\ ext_ftype \in {"MOSTLY_F16", "MOSTLY_Q8_0"}
    /\ rope_scaling \in BOOLEAN
    /\ shard_tensors \in ShardStreams
    /\ n_pulled = 0
    /\ chained = <<>>
    /\ gguf_tensors = <<>>
    /\ ext_pc = "start"

NextExtra ==
    \/ ChainStart
    \/ ChainLoop
    \/ ChainEnd

SpecExtra == InitExtra /\ [][NextExtra]_vars

\* ------------------------------------------------------------------------
\* Properties of the synthetic tensors (under SpecExtra)
\* ------------------------------------------------------------------------

\* the entries of the writer that came from generate_extra_tensors
FromExtra == SelectSeq(gguf_tensors, LAMBDA e : e[1] = "extra")

\* C25: in one prepare_tensors run generate_extra_tensors is pulled exactly
\* once, every synthetic tensor it yields is added to the writer before any
\* tensor read from a shard, and synthetic tensors go through the same
\* modify_tensors and encoding selection as raw tensors.
C25_ExtraTensorsFirst ==
    /\ n_pulled <= 1
    /\ ext_pc # "start" => n_pulled = 1
    /\ \A i, j \in DOMAIN gguf_tensors :
          (gguf_tensors[i][1] = "raw" /\ gguf_tensors[j][1] = "extra") => j < i
    /\ (\E i \in DOMAIN gguf_tensors : gguf_tensors[i][1] = "raw")
          => Len(FromExtra) = Len(generate_extra_tensors(ext_cls, rope_scaling))
    /\ ext_pc = "done" =>
          [i \in DOMAIN FromExtra |-> FromExtra[i][2]]
            = [i \in DOMAIN generate_extra_tensors(ext_cls, rope_scaling) |->
                  generate_extra_tensors(ext_cls, rope_scaling)[i][1]]
    /\ \A i \in DOMAIN gguf_tensors :
          LET e == gguf_tensors[i]
          IN  /\ e[3] = MapName(e[2])
              /\ e[4] = SelectEncoding(ext_cls, ext_ftype, e[3],
                                       IF e[1] = "extra" THEN 1 ELSE RawRank(e[2]))

\* both rope factor tensors of MiniCPMModel are in the writer, then a tensor
\* of a shard
C25_Witness ==
    /\ ext_pc = "done"
    /\ ext_cls = "MiniCPMModel"
    /\ ext_ftype = "MOSTLY_Q8_0"
    /\ gguf_tensors =
         << <<"extra", "rope_factors_long.weight", "rope_factors_long.weight", "F32">>,
            <<"extra", "rope_factors_short.weight", "rope_factors_short.weight", "F32">>,
            <<"raw", "model.embed_tokens.weight", "token_embd.weight", "Q8_0">> >>

\* ------------------------------------------------------------------------
\* Handlers that drop duplicates of the token embedding
\* ------------------------------------------------------------------------

\* raw tensors in the stream of such a handler
MaxStream == 3

\* One call of modify_tensors is over: the call is recorded, the attributes
\* of the instance are as the call left them.
HandlerReturns(out, tok, found) ==
    /\ hnd_queue # <<>>
    /\ hnd_calls' = Append(hnd_calls, [name |-> Head(hnd_queue)[1],
                                       data |-> Head(hnd_queue)[2],
                                       ret  |-> out])
    /\ tok_embd' = tok
    /\ shared_token_embeddings_found' = found
    /\ hnd_queue' = Tail(hnd_queue)
    /\ UNCHANGED hnd_cls
    /\ UNCHANGED nonhndvars

MambaDropsMutAnyOrder(tok, new_name, data) ==
    new_name = "output.weight"

\* Lines 5219-5222: the output projection is dropped when _tok_embd is set
\* and torch.equal finds it equal to the tensor.
MambaDrops(tok, new_name, data) ==
    tok # <<>> /\ new_name = "output.weight" /\ tok[1] = data

\* Lines 5203-5225, MambaModel.modify_tensors.
MambaModifyTensors ==
    /\ hnd_cls = "MambaModel"
    /\ hnd_queue # <<>>
    /\ LET name == Head(hnd_queue)[1]
           new_name == MapName(name)
           data == IF name = "backbone.layers.0.mixer.A_log"
                       THEN <<"neg_exp", Head(hnd_queue)[2][2]>>
                       ELSE Head(hnd_queue)[2]
       IN  IF tok_embd # <<>> /\ new_name = "output.weight"
               THEN HandlerReturns(IF MambaDrops(tok_embd, new_name, data)
                                       THEN <<>>
                                       ELSE << <<new_name, data>> >>,
                                   tok_embd, shared_token_embeddings_found)
           ELSE IF new_name = "token_embd.weight"
               THEN HandlerReturns(<< <<new_name, data>> >>, <<data>>,
                                   shared_token_embeddings_found)
           ELSE HandlerReturns(<< <<new_name, data>> >>, tok_embd,
                               shared_token_embeddings_found)

T5SharedNames ==
    {"decoder.embed_tokens.weight", "encoder.embed_tokens.weight",
     "shared.weight"}

T5RenamedMutKeepsName(name) == name

\* Line 6261: the first of the three names is taken as "shared.weight".
T5Renamed(name) == "shared.weight"

\* Lines 6252-6267, T5Model.modify_tensors.
T5ModifyTensors ==
    /\ hnd_cls = "T5Model"
    /\ hnd_queue # <<>>
    /\ LET name == Head(hnd_queue)[1]
           data == Head(hnd_queue)[2]
       IN  IF name \in T5SharedNames
               THEN IF ~shared_token_embeddings_found
                       THEN HandlerReturns(
                                << <<MapName(T5Renamed(name)), data>> >>,
                                tok_embd, TRUE)
                       ELSE HandlerReturns(<<>>, tok_embd,
                                           shared_token_embeddings_found)
               ELSE HandlerReturns(<< <<MapName(name), data>> >>, tok_embd,
                                   shared_token_embeddings_found)

\* the raw tensors of a checkpoint of the class
HandlerNames(cls) ==
    IF cls = "MambaModel"
        THEN {"backbone.embeddings.weight", "lm_head.weight",
              "backbone.layers.0.mixer.A_log"}
        ELSE T5SharedNames \cup {"encoder.block.0.layer.0.SelfAttention.q.weight"}

\* the streams: tensors of different names in any order, the data of a tensor
\* one of two values
HandlerStreams(cls) ==
    UNION {{s \in [1..n -> HandlerNames(cls) \X ({"w"} \X {1, 2})] :
               \A i, j \in 1..n : i # j => s[i][1] # s[j][1]} : n \in 0..MaxStream}

\* The instance is constructed: _tok_embd is the None of the class body
\* (line 5201), shared_token_embeddings_found the False of lines 6137-6139.
InitHandler ==
    /\ IdleArch
    /\ IdleCtor
    /\ IdleSource
    /\ IdleExperts
    /\ IdleSplit
    /\ IdlePrepare
    /\ IdleMain
    /\ IdleFormat
    /\ IdleRuns
    /\ IdleModify
    /\ IdlePlan
    /\ IdleBid
    /\ IdleSelect
    /\ IdleExtra
    /\ hnd_cls \in {"MambaModel", "T5Model"}
    /\ hnd_queue \in HandlerStreams(hnd_cls)
    /\ tok_embd = <<>>
    /\ shared_token_embeddings_found = FALSE
    /\ hnd_calls = <<>>

NextHandler ==
    \/ MambaModifyTensors
    \/ T5ModifyTensors

SpecHandler == InitHandler /\ [][NextHandler]_vars

\* ------------------------------------------------------------------------
\* Properties of these handlers (under SpecHandler)
\* ------------------------------------------------------------------------

\* the calls that were given the raw tensor of one of the names
CallsOf(names) == {i \in DOMAIN hnd_calls : hnd_calls[i].name \in names}

\* C26: MambaModel drops the output projection only when the token embedding
\* was processed earlier in the stream and the two tensors are element-wise
\* equal; if output.weight arrives before the token embedding, or differs
\* from it, both tensors are emitted.
C26_MambaDropsTiedOutput ==
    hnd_cls = "MambaModel" =>
        /\ \A i \in CallsOf({"lm_head.weight"}) :
              IF \E j \in CallsOf({"backbone.embeddings.weight"}) :
                     j < i /\ hnd_calls[j].data = hnd_calls[i].data
                  THEN hnd_calls[i].ret = <<>>
                  ELSE hnd_calls[i].ret =
                         << <<"output.weight", hnd_calls[i].data>> >>
        /\ \A j \in CallsOf({"backbone.embeddings.weight"}) :
              hnd_calls[j].ret = << <<"token_embd.weight", hnd_calls[j].data>> >>

\* the output projection came after an equal token embedding and was dropped
C26_Witness ==
    /\ hnd_cls = "MambaModel"
    /\ hnd_queue = <<>>
    /\ Len(hnd_calls) = 3
    /\ hnd_calls[1].name = "backbone.embeddings.weight"
    /\ hnd_calls[3] = [name |-> "lm_head.weight", data |-> <<"w", 2>>,
                       ret |-> <<>>]
    /\ hnd_calls[1].data = <<"w", 2>>

\* the tensors emitted under the canonical name, over all calls so far
EmittedAs(new_name) ==
    {c \in (DOMAIN hnd_calls) \X (1..MaxStream) :
        /\ c[2] \in DOMAIN hnd_calls[c[1]].ret
        /\ hnd_calls[c[1]].ret[c[2]][1] = new_name}

\* C27: T5Model emits exactly one shared token-embedding tensor per run: of
\* the raw names decoder.embed_tokens.weight, encoder.embed_tokens.weight and
\* shared.weight, the first one met in the stream is emitted under the
\* canonical name of shared.weight and every later one is dropped, whichever
\* of the three are present and in whatever order.
C27_T5OneSharedEmbedding ==
    hnd_cls = "T5Model" =>
        /\ \A i \in CallsOf(T5SharedNames) :
              IF \A j \in CallsOf(T5SharedNames) : i <= j
                  THEN hnd_calls[i].ret =
                         << <<MapName("shared.weight"), hnd_calls[i].data>> >>
                  ELSE hnd_calls[i].ret = <<>>
        /\ Cardinality(EmittedAs(MapName("shared.weight")))
             = IF CallsOf(T5SharedNames) = {} THEN 0 ELSE 1

\* the encoder's embedding came first and was emitted as the shared one; the
\* two that followed were dropped
C27_Witness ==
    /\ hnd_cls = "T5Model"
    /\ hnd_queue = <<>>
    /\ Len(hnd_calls) = 3
    /\ hnd_calls[1] = [name |-> "encoder.embed_tokens.weight",
                       data |-> <<"w", 1>>,
                       ret |-> << <<"token_embd.weight", <<"w", 1>> >> >>]
    /\ hnd_calls[2].name = "shared.weight" /\ hnd_calls[2].ret = <<>>
    /\ hnd_calls[3].name = "decoder.embed_tokens.weight"
    /\ hnd_calls[3].ret = <<>>

\* ------------------------------------------------------------------------
\* The fused time_mix_lerp tensor of Rwkv6Model (under SpecRuns)
\* ------------------------------------------------------------------------

\* how often the run passed a tensor of one of the names to the writer
TimesPassed(r, names) ==
    Cardinality({i \in DOMAIN passed[r] : passed[r][i][1] \in names})

\* the runs that are over
RunsOver == IF rpc = "done" THEN 1..2 ELSE 1..(run - 1)

\* C28: for Rwkv6Model, when each of the five time_mix_lerp weights (w, k, v,
\* r, g) of a block arrives exactly once, exactly one time_mix_lerp_fused
\* tensor is emitted for that block, in the call that delivers the fifth
\* weight; none of the five is emitted on its own.
C28_LerpFusedOnceAtFifth ==
    run_cls = "Rwkv6Model" =>
        /\ \A r \in 1..2 : TimesPassed(r, LerpNames) = 0
        /\ \A r \in RunsOver :
              TimesPassed(r, {"blk.0.time_mix_lerp_fused.weight"}) = 1
        /\ (rpc = "pass" /\ \E i \in DOMAIN queue : queue[i][2] \in LerpNames)
              => TimesPassed(run, {"blk.0.time_mix_lerp_fused.weight"}) = 0

\* ------------------------------------------------------------------------
\* The output type from the command line to the tensor pass
\* ------------------------------------------------------------------------

\* Line 7681: the choices of --outtype.
OutTypes == {"f32", "f16", "bf16", "q8_0", "tq1_0", "tq2_0", "auto"}

\* Lines 7817-7825.
ftype_map(outtype) ==
    CASE outtype = "f32"   -> "ALL_F32"
      [] outtype = "f16"   -> "MOSTLY_F16"
      [] outtype = "bf16"  -> "MOSTLY_BF16"
      [] outtype = "q8_0"  -> "MOSTLY_Q8_0"
      [] outtype = "tq1_0" -> "MOSTLY_TQ1_0"
      [] outtype = "tq2_0" -> "MOSTLY_TQ2_0"
      [] outtype = "auto"  -> "GUESSED"

GuessedFtypeMutUnresolved(ft, dtype) == ft

\* Lines 124-133: GUESSED is resolved by the dtype of the first tensor.
GuessedFtype(ft, dtype) ==
    IF ft = "GUESSED"
        THEN IF dtype = "float16" THEN "MOSTLY_F16" ELSE "MOSTLY_BF16"
        ELSE ft

\* Lines 7847 and 7858, then ModelBase.__init__ (lines 95, 124-133): with
\* GUESSED the first tensor is pulled from get_tensors, and next() raises
\* StopIteration when the stream is empty: no instance then.
ConstructModel ==
    /\ ctor_pc = "main"
    /\ LET output_type == ftype_map(args_outtype)
       IN  IF output_type = "GUESSED" /\ first_tensor = <<>>
               THEN /\ ctor_pc' = "raised"
                    /\ self_ftype' = output_type
               ELSE /\ ctor_pc' = "constructed"
                    /\ self_ftype' =
                         IF output_type = "GUESSED"
                             THEN GuessedFtype(output_type, first_tensor[1])
                             ELSE output_type
    /\ UNCHANGED <<args_outtype, first_tensor, ctor_tensor, ctor_qtype>>
    /\ UNCHANGED nonctorvars

\* Lines 287-355 of prepare_tensors for a tensor of the instance.
PrepareOne(new_name, n_dims) ==
    /\ ctor_pc = "constructed"
    /\ ctor_tensor' = <<new_name, n_dims>>
    /\ ctor_qtype' = SelectEncoding("LlamaModel", self_ftype, new_name, n_dims)
    /\ ctor_pc' = "prepared"
    /\ UNCHANGED <<args_outtype, first_tensor, self_ftype>>
    /\ UNCHANGED nonctorvars

\* the dtypes of a checkpoint
TorchDtypes == {"float16", "bfloat16", "float32", "int8"}

InitCtor ==
    /\ IdleArch
    /\ IdleSource
    /\ IdleExperts
    /\ IdleSplit
    /\ IdlePrepare
    /\ IdleMain
    /\ IdleFormat
    /\ IdleRuns
    /\ IdleModify
    /\ IdlePlan
    /\ IdleBid
    /\ IdleSelect
    /\ IdleExtra
    /\ IdleHandler
    /\ args_outtype \in OutTypes
    /\ first_tensor \in {<<>>} \cup {<<d>> : d \in TorchDtypes}
    /\ self_ftype = "unset"
    /\ ctor_pc = "main"
    /\ ctor_tensor = <<>>
    /\ ctor_qtype = "False"

NextCtor ==
    \/ ConstructModel
    \/ \E new_name \in SelectNames, n_dims \in 0..MaxRank :
          PrepareOne(new_name, n_dims)

SpecCtor == InitCtor /\ [][NextCtor]_vars

\* ------------------------------------------------------------------------
\* Properties of the output type (under SpecCtor)
\* ------------------------------------------------------------------------

\* C29: after a model instance is constructed its output type is never
\* GUESSED: "auto" is resolved from the dtype of the first tensor of the
\* stream (float16 -> MOSTLY_F16, any other dtype -> MOSTLY_BF16), so for
\* every output type selectable on the command line prepare_tensors never
\* raises "Unknown file type".
C29_OutputTypeResolved ==
    /\ ctor_pc \in {"constructed", "prepared"} =>
          /\ self_ftype \in Ftypes
          /\ self_ftype # "GUESSED"
          /\ args_outtype = "auto" =>
                /\ first_tensor # <<>>
                /\ self_ftype = IF first_tensor = <<"float16">>
                                    THEN "MOSTLY_F16" ELSE "MOSTLY_BF16"
    /\ ctor_pc = "prepared" => ctor_qtype # "ValueError"

\* --outtype auto with a bfloat16 checkpoint: BF16 for a plain 2-D weight
C29_Witness ==
    /\ ctor_pc = "prepared"
    /\ args_outtype = "auto"
    /\ first_tensor = <<"bfloat16">>
    /\ self_ftype = "MOSTLY_BF16"
    /\ ctor_tensor = <<"blk.0.attn_output.weight", 2>>
    /\ ctor_qtype = "BF16"

\* ------------------------------------------------------------------------
\* get_model_architecture
\* ------------------------------------------------------------------------

\* A key that is absent (or null), for .get(key) and .get(key, {}).
Absent == [present |-> FALSE, list |-> <<>>]

\* Lines 7766-7785. The keys "architectures" of hparams, of text_config and
\* of vision_config are [present, list]; ssm_cfg is [present, layer] with
\* layer <<>> when the key "layer" is missing. Indexing an empty list raises
\* IndexError.
get_model_architecture(hparams, model_type) ==
    LET arches == hparams.architectures
        arch == IF arches.present /\ Len(arches.list) > 0
                    THEN <<arches.list[1]>>
                ELSE IF hparams.ssm_cfg.present
                    THEN <<(IF hparams.ssm_cfg.layer = <<>>
                               THEN "Mamba"
                               ELSE hparams.ssm_cfg.layer[1]) \o "ForCausalLM">>
                ELSE <<>>
        sub == IF model_type = "TEXT" /\ hparams.text_config.present
                   THEN hparams.text_config
               ELSE IF model_type = "MMPROJ" /\ hparams.vision_config.present
                   THEN hparams.vision_config
               ELSE Absent
    IN  IF sub.present
            THEN IF sub.list = <<>> THEN <<"IndexError">> ELSE <<sub.list[1]>>
        ELSE IF arch = <<>> THEN <<"ValueError">>
        ELSE arch

GetModelArchitecture ==
    /\ arch_ret = <<>>
    /\ arch_ret' = get_model_architecture(arch_hparams, arch_model_type)
    /\ UNCHANGED <<arch_hparams, arch_model_type>>
    /\ UNCHANGED nonarchvars

\* the values of an "architectures" key of a config.json
ArchLists ==
    {Absent} \cup
    {[present |-> TRUE, list |-> l] :
        l \in {<<>>, <<"LlamaForCausalLM">>,
               <<"Qwen2VLForConditionalGeneration", "LlamaForCausalLM">>}}

InitArch ==
    /\ IdleSource
    /\ IdleExperts
    /\ IdleSplit
    /\ IdlePrepare
    /\ IdleMain
    /\ IdleFormat
    /\ IdleRuns
    /\ IdleModify
    /\ IdlePlan
    /\ IdleBid
    /\ IdleSelect
    /\ IdleExtra
    /\ IdleHandler
    /\ IdleCtor
    /\ arch_hparams \in
         [architectures : ArchLists,
          text_config : ArchLists,
          vision_config : ArchLists,
          ssm_cfg : {[present |-> FALSE, layer |-> <<>>],
                     [present |-> TRUE, layer |-> <<>>],
                     [present |-> TRUE, layer |-> <<"Mamba2">>]}]
    /\ arch_model_type \in {"TEXT", "MMPROJ"}
    /\ arch_ret = <<>>

NextArch == GetModelArchitecture

SpecArch == InitArch /\ [][NextArch]_vars

\* ------------------------------------------------------------------------
\* Properties of get_model_architecture (under SpecArch)
\* ------------------------------------------------------------------------

\* the "architectures" of the sub-config of the model type
SubConfigArches ==
    IF arch_model_type = "TEXT"
        THEN arch_hparams.text_config
        ELSE arch_hparams.vision_config

\* C30: get_model_architecture returns the first entry of the sub-config's
\* "architectures" (text_config for TEXT, vision_config for MMPROJ) when that
\* is present; otherwise the first entry of a non-empty top-level
\* "architectures"; otherwise, when "ssm_cfg" is present, its "layer" value
\* (default "Mamba") followed by "ForCausalLM"; and raises ValueError when
\* none of these applies.
C30_ArchitectureDetected ==
    arch_ret # <<>> =>
        IF SubConfigArches.present
            THEN /\ arch_ret \notin {<<"ValueError">>, <<"IndexError">>}
                 /\ SubConfigArches.list # <<>>
                       => arch_ret = <<SubConfigArches.list[1]>>
        ELSE IF arch_hparams.architectures.present
                /\ arch_hparams.architectures.list # <<>>
            THEN arch_ret = <<arch_hparams.architectures.list[1]>>
        ELSE IF arch_hparams.ssm_cfg.present
            THEN arch_ret \in {<<"MambaForCausalLM">>, <<"Mamba2ForCausalLM">>}
                 /\ (arch_hparams.ssm_cfg.layer = <<>>
                        <=> arch_ret = <<"MambaForCausalLM">>)
        ELSE arch_ret = <<"ValueError">>

====
